---------------------------- MODULE Spec2Model ----------------------------
(***************************************************************************)
(* Model of the RangeMap of components/collections/range_tree and of the   *)
(* B-Tree it is built on (components/collections/btree).                   *)
(*                                                                         *)
(* Keys are integers.  A range is a pair of bounds, each Unbounded,        *)
(* Included(v) or Excluded(v).  The B-Tree is a tree of height at most two *)
(* (order M = 8): it is held as its in-order sequence of items plus the    *)
(* set of in-order positions that are separators of the root node; the     *)
(* leaves are the runs of items between two separators.  An Address is the *)
(* in-order position it designates (0 for "no address").                   *)
(*                                                                         *)
(* The walks of insert, update and remove, the search and the Gaps         *)
(* iterator follow generic/map.rs statement by statement.  The operations  *)
(* on ranges (crate::range) and the address operations of the B-Tree       *)
(* (BTreeExt, BTreeExtMut) follow the specification of the repository,     *)
(* over a discrete key domain.                                             *)
(*                                                                         *)
(* A panic of the code (unwrap of None, an unresolvable underflow) is      *)
(* modelled by the flag ok = FALSE of the result: the call does not        *)
(* return, so the operation has no successor state.                        *)
(*                                                                         *)
(* Spec drives a map with insert, update, remove and gaps over the keys    *)
(* 0..MaxKey and both ends of the domain; SpecTree binds and unbinds the   *)
(* keys 0..TreeMaxKey one by one, which splits the root.                   *)
(***************************************************************************)
EXTENDS Integers, Sequences, FiniteSets, TLC

(* ------------------------------ bounds -------------------------------- *)
\* Input bounds of the range operations are drawn from 0..MaxKey.
MaxKey == 1
\* Input keys of the specification that grows a tree of height two.
TreeMaxKey == 7

\* Knuth order of the B-Trees.
M == 8

\* V: the code only compares values with ==, and two values give both
\* outcomes of every comparison.
Values == {1, 2}
\* Option<V>: None is 0.
NoVal == 0
OptValues == {NoVal} \cup Values

KeyTop == IF TreeMaxKey > MaxKey THEN TreeMaxKey ELSE MaxKey
\* Stand-ins for the ends of the key domain, beyond every key in use.
PosInf == KeyTop + 4
NegInf == 0 - 4

(* ------------------------------ ranges -------------------------------- *)
Unbounded == [k |-> "U", v |-> 0]
Included(x) == [k |-> "I", v |-> x]
Excluded(x) == [k |-> "E", v |-> x]
AnyRange(s, e) == [start |-> s, end |-> e]
\* A range that stands for "no range" in an Option<AnyRange>.
NoRange == [start |-> Excluded(0), end |-> Excluded(0)]

\* First key of the domain that a start bound admits.
StartVal(b) == IF b.k = "U" THEN NegInf ELSE IF b.k = "I" THEN b.v ELSE b.v + 1
\* Last key of the domain that an end bound admits.
EndVal(b) == IF b.k = "U" THEN PosInf ELSE IF b.k = "I" THEN b.v ELSE b.v - 1
Lo(r) == StartVal(r.start)
Hi(r) == EndVal(r.end)

is_empty(r) == Lo(r) > Hi(r)
contains(r, x) == Lo(r) <= x /\ x <= Hi(r)
intersects(r, o) == ~is_empty(r) /\ ~is_empty(o) /\ Lo(r) <= Hi(o) /\ Lo(o) <= Hi(r)
\* Overlapping, or adjacent with no key of the domain in between.
connected_to(r, o) == Lo(r) <= Hi(o) + 1 /\ Lo(o) <= Hi(r) + 1

\* RangeOrdering: Before(connected), Intersecting, After(connected).
Before(c) == [o |-> "Before", c |-> c]
After(c) == [o |-> "After", c |-> c]
Intersecting == [o |-> "Intersecting", c |-> FALSE]

\* A key against a range.
key_partial_cmp(x, r) ==
    IF x < Lo(r) THEN Before(x + 1 = Lo(r))
    ELSE IF x > Hi(r) THEN After(Hi(r) + 1 = x)
    ELSE Intersecting

\* A range against a range.
range_partial_cmp(r, o) ==
    IF Lo(r) >= Lo(o)
    THEN IF Lo(r) <= Hi(o) THEN Intersecting ELSE After(Hi(o) + 1 = Lo(r))
    ELSE IF Hi(r) >= Lo(o) THEN Intersecting ELSE Before(Hi(r) + 1 = Lo(o))

ord_is_before(ord, connected) == ord.o = "Before" /\ (~ord.c \/ ~connected)
ord_matches(ord, connected) ==
    IF ord.o = "Intersecting" THEN TRUE ELSE ord.c /\ connected

invert_bound(b) == IF b.k = "I" THEN Excluded(b.v) ELSE Included(b.v)
max_start(a, b) == IF StartVal(a) >= StartVal(b) THEN a ELSE b
min_start(a, b) == IF StartVal(a) <= StartVal(b) THEN a ELSE b
max_end(a, b) == IF EndVal(a) >= EndVal(b) THEN a ELSE b
min_end(a, b) == IF EndVal(a) <= EndVal(b) THEN a ELSE b

\* The smallest range that includes both.
add(r, o) == AnyRange(min_start(r.start, o.start), max_end(r.end, o.end))
intersected_with(r, o) == AnyRange(max_start(r.start, o.start), min_end(r.end, o.end))

\* The part of r before the start of another range (empty: none of it).
crop_right(r, other_start) ==
    IF other_start.k = "U" THEN NoRange
    ELSE AnyRange(r.start, min_end(r.end, invert_bound(other_start)))
\* The part of r after the end of another range.
crop_left(r, other_end) ==
    IF other_end.k = "U" THEN NoRange
    ELSE AnyRange(max_start(r.start, invert_bound(other_end)), r.end)

\* Product of the subject range r with the object range o: what lies before
\* their intersection, the intersection, what lies after it, the first and
\* last tagged with the range they come from ("N": nothing).
product(r, o) ==
    LET sb == crop_right(r, o.start)
        ob == crop_right(o, r.start)
        sa == crop_left(r, o.end)
        oa == crop_left(o, r.end)
        i  == intersected_with(r, o)
    IN [before |-> IF ~is_empty(sb) THEN [tag |-> "Subject", r |-> sb]
                   ELSE IF ~is_empty(ob) THEN [tag |-> "Object", r |-> ob]
                   ELSE [tag |-> "N", r |-> NoRange],
        intersection |-> IF is_empty(i) THEN [tag |-> "N", r |-> NoRange]
                         ELSE [tag |-> "Some", r |-> i],
        after |-> IF ~is_empty(sa) THEN [tag |-> "Subject", r |-> sa]
                  ELSE IF ~is_empty(oa) THEN [tag |-> "Object", r |-> oa]
                  ELSE [tag |-> "N", r |-> NoRange]]

\* Difference r minus o, for intersecting r and o.
without(r, o) ==
    LET left == crop_right(r, o.start)
        right == crop_left(r, o.end)
    IN IF ~is_empty(left) /\ ~is_empty(right)
         THEN [tag |-> "Split", left |-> left, right |-> right]
       ELSE IF ~is_empty(left)
         THEN [tag |-> "Before", left |-> left, right |-> NoRange]
       ELSE IF ~is_empty(right)
         THEN [tag |-> "After", left |-> NoRange, right |-> right]
       ELSE [tag |-> "Empty", left |-> NoRange, right |-> NoRange]

(* ------------------------------ B-Tree -------------------------------- *)
Item(key, value) == [key |-> key, value |-> value]
NoItem == Item(NoRange, NoVal)

\* BTreeMap::new: root = None.
EmptyTree == [items |-> << >>, seps |-> {}]

ItemCount(t) == Len(t.items)
InsertSeq(s, p, x) == SubSeq(s, 1, p - 1) \o <<x>> \o SubSeq(s, p, Len(s))
RemoveSeq(s, p) == SubSeq(s, 1, p - 1) \o SubSeq(s, p + 1, Len(s))
ReplaceSeq(s, p, x) == [s EXCEPT ![p] = x]

\* The i-th separator of the root (in-order position), i in 1..|seps|.
Sep(t, i) == CHOOSE s \in t.seps : Cardinality({u \in t.seps : u < s}) = i - 1
\* Leaf j (1..|seps|+1) holds the items at positions LeafFirst..LeafLast.
LeafFirst(t, j) == IF j = 1 THEN 1 ELSE Sep(t, j - 1) + 1
LeafLast(t, j) == IF j = Cardinality(t.seps) + 1 THEN ItemCount(t) ELSE Sep(t, j) - 1
\* The leaf that holds position p (p not a separator; p may be the insertion
\* point at the end of the leaf).
LeafOf(t, p) == Cardinality({s \in t.seps : s < p}) + 1

\* BTreeExt::item: the item at an address, None for an address of no item.
has_item(t, addr) == addr \in 1..ItemCount(t)
item(t, addr) == IF has_item(t, addr) THEN t.items[addr] ELSE NoItem

\* BTreeExt::next_item_address / previous_item_address / normalize.
NoAddr == 0
next_item_address(t, addr) == IF addr + 1 <= ItemCount(t) THEN addr + 1 ELSE NoAddr
previous_item_address(t, addr) == IF addr - 1 >= 1 THEN addr - 1 ELSE NoAddr
normalize(t, addr) == IF has_item(t, addr) THEN addr ELSE NoAddr

\* Leaf::split: the median of an overflowing leaf is promoted to the parent.
split(t, j) ==
    LET first == LeafFirst(t, j)
        size == LeafLast(t, j) - first + 1
        median_i == (size - 1) \div 2
    IN [t EXCEPT !.seps = @ \cup {first + median_i}]

\* BTreeExtMut::insert_at: the item is placed at in-order position addr (in
\* the leaf that ends there when addr is a separator); an overflowing leaf
\* is split.  The address returned is addr.
insert_at(t, addr, it) ==
    LET t1 == [items |-> InsertSeq(t.items, addr, it),
               seps |-> {IF s >= addr THEN s + 1 ELSE s : s \in t.seps}]
        j == LeafOf(t1, addr)
    IN IF LeafLast(t1, j) - LeafFirst(t1, j) + 1 >= M THEN split(t1, j) ELSE t1

\* Address { id, offset }: id 0 is the internal root and id j the j-th leaf (a
\* tree of one node is leaf 1); offset counts the items of the node from 0.
Address(id, offset) == [id |-> id, offset |-> offset]
\* The in-order position of the item that an Address designates, NoAddr when
\* it designates none.
position_of(t, a) ==
    IF a.id = 0
    THEN IF a.offset < Cardinality(t.seps) THEN Sep(t, a.offset + 1) ELSE NoAddr
    ELSE IF a.id <= Cardinality(t.seps) + 1
            /\ LeafFirst(t, a.id) + a.offset <= LeafLast(t, a.id)
         THEN LeafFirst(t, a.id) + a.offset
         ELSE NoAddr
\* The Address of the place in a leaf where insert_at(addr) puts the item:
\* the end of the leaf before it when addr is a separator.
leaf_address(t, addr) == Address(LeafOf(t, addr), addr - LeafFirst(t, LeafOf(t, addr)))
\* The Address insert_at returns when the leaf of size items (the new one
\* counted) splits at its median: an item left of the median stays where it
\* is, the median is the separator that the parent gets after those of the
\* leaves before, an item right of it is in the new sibling.
split_address(a, size) ==
    LET median_i == (size - 1) \div 2
    IN IF a.offset < median_i THEN a
       ELSE IF a.offset = median_i THEN Address(0, a.id - 1)
       ELSE Address(a.id + 1, a.offset - median_i - 1)
\* insert_at that returns the address it inserted at, whatever the split.
insert_at_address_unsplit(t, addr) == leaf_address(t, addr)
\* The Address that insert_at(addr, item) returns.
insert_at_address(t, addr) ==
    IF LeafLast(t, LeafOf(t, addr)) - LeafFirst(t, LeafOf(t, addr)) + 2 >= M
    THEN split_address(leaf_address(t, addr),
                       LeafLast(t, LeafOf(t, addr)) - LeafFirst(t, LeafOf(t, addr)) + 2)
    ELSE leaf_address(t, addr)

\* BTreeMap::try_rotate_left / try_rotate_right: report success, move nothing.
try_rotate_left(t, j) == [ok |-> TRUE, tree |-> t]
try_rotate_right(t, j) == [ok |-> TRUE, tree |-> t]

\* Rebalancing that merges an underflowing leaf without trying the rotations.
rebalance_merging(t, j) ==
    IF t.seps = {} \/ LeafLast(t, j) - LeafFirst(t, j) + 1 >= M \div 2 - 1
    THEN [ok |-> TRUE, tree |-> t]
    ELSE [ok |-> FALSE, tree |-> t]
\* Rebalancing of leaf j after a removal: an underflowing leaf is handed to
\* the rotations; the merge is reached only when both refuse.
rebalance(t, j) ==
    LET size == LeafLast(t, j) - LeafFirst(t, j) + 1
    IN IF t.seps = {} \/ size >= M \div 2 - 1 THEN [ok |-> TRUE, tree |-> t]
       ELSE LET l == try_rotate_left(t, j)
            IN IF l.ok THEN l
               ELSE LET r == try_rotate_right(t, j)
                    IN IF r.ok THEN r ELSE [ok |-> FALSE, tree |-> t]

\* BTreeExtMut::remove_at: some is FALSE (None) for an address of no item.
\* A separator is replaced by its in-order predecessor, the last item of the
\* leaf to its left (a panic when that leaf is empty); the removal then
\* happens in the leaf.  The address returned is that of the following
\* item: addr again.
remove_at(t, addr) ==
    IF ~has_item(t, addr) THEN [ok |-> TRUE, some |-> FALSE, tree |-> t]
    ELSE IF addr \in t.seps
    THEN IF addr - 1 < 1 \/ (addr - 1) \in t.seps
         THEN [ok |-> FALSE, some |-> FALSE, tree |-> t]
         ELSE LET t1 == [items |-> RemoveSeq(t.items, addr),
                         seps |-> {IF s > addr THEN s - 1 ELSE s : s \in t.seps \ {addr}}
                                  \cup {addr - 1}]
                  b == rebalance(t1, LeafOf(t1, addr - 1))
              IN [ok |-> b.ok, some |-> TRUE, tree |-> b.tree]
    ELSE LET t1 == [items |-> RemoveSeq(t.items, addr),
                    seps |-> {IF s > addr THEN s - 1 ELSE s : s \in t.seps}]
             b == rebalance(t1, LeafOf(t1, addr))
         IN [ok |-> b.ok, some |-> TRUE, tree |-> b.tree]
\* remove_at(addr).unwrap()
remove_at_unwrap(t, addr) ==
    LET r == remove_at(t, addr) IN [ok |-> r.ok /\ r.some, tree |-> r.tree]

\* Item::set_key / key_mut / set_value at an address.
set_key_at(t, addr, key) == [t EXCEPT !.items[addr].key = key]
set_value_at(t, addr, value) == [t EXCEPT !.items[addr].value = value]

(* ------------------------------ search -------------------------------- *)
\* The element looked for: a key or a range.
KeyElem(x) == [isKey |-> TRUE, x |-> x, r |-> NoRange]
RangeElem(r) == [isKey |-> FALSE, x |-> 0, r |-> r]
\* A key that compares with nothing (a NaN), and a range with such a bound.
NaN == PosInf + 2
has_nan(r) == r.start.v = NaN \/ r.end.v = NaN
\* None of Option<RangeOrdering>.
Incomparable == [o |-> "None", c |-> FALSE]
unwrap_or(ord, default) == IF ord = Incomparable THEN default ELSE ord
elem_partial_cmp(e, r) ==
    IF e.isKey
    THEN IF e.x = NaN \/ has_nan(r) THEN Incomparable ELSE key_partial_cmp(e.x, r)
    ELSE IF has_nan(e.r) \/ has_nan(r) THEN Incomparable ELSE range_partial_cmp(e.r, r)

\* The loop of binary_search returning the upper index.
RECURSIVE narrow_upper(_, _, _, _, _)
narrow_upper(items, e, connected, i, j) ==
    IF j - i > 1
    THEN LET k == ((i - 1) + (j - 1)) \div 2 + 1
         IN IF ord_is_before(elem_partial_cmp(e, items[k].key), connected)
            THEN narrow_upper(items, e, connected, i, k)
            ELSE narrow_upper(items, e, connected, k, j)
    ELSE j
\* The loop of binary_search: items[i] is not after the element, items[j] is.
RECURSIVE narrow(_, _, _, _, _)
narrow(items, e, connected, i, j) ==
    IF j - i > 1
    THEN LET k == ((i - 1) + (j - 1)) \div 2 + 1
         IN IF elem_partial_cmp(e, items[k].key) = Incomparable THEN 0
            ELSE IF ord_is_before(elem_partial_cmp(e, items[k].key), connected)
            THEN narrow(items, e, connected, i, k)
            ELSE narrow(items, e, connected, k, j)
    ELSE i

\* Index (from 1; 0 is None) of the greatest item below, including or, when
\* connected is set, connected to the element.
binary_search(items, e, connected) ==
    IF items = << >>
       \/ ord_is_before(unwrap_or(elem_partial_cmp(e, items[1].key), Before(FALSE)), connected)
    THEN 0
    ELSE IF ~ord_is_before(unwrap_or(elem_partial_cmp(e, items[Len(items)].key), After(FALSE)),
                           connected)
    THEN Len(items)
    ELSE narrow(items, e, connected, 1, Len(items))

\* The indices of the items that binary_search compares the element with.
RECURSIVE narrow_compared(_, _, _, _, _)
narrow_compared(items, e, connected, i, j) ==
    IF j - i > 1
    THEN LET k == ((i - 1) + (j - 1)) \div 2 + 1
         IN {k} \cup
            IF elem_partial_cmp(e, items[k].key) = Incomparable THEN {}
            ELSE IF ord_is_before(elem_partial_cmp(e, items[k].key), connected)
            THEN narrow_compared(items, e, connected, i, k)
            ELSE narrow_compared(items, e, connected, k, j)
    ELSE {}
compared(items, e, connected) ==
    IF items = << >> THEN {}
    ELSE IF ord_is_before(unwrap_or(elem_partial_cmp(e, items[1].key), Before(FALSE)), connected)
    THEN {1}
    ELSE IF ~ord_is_before(unwrap_or(elem_partial_cmp(e, items[Len(items)].key), After(FALSE)),
                           connected)
    THEN {1, Len(items)}
    ELSE {1, Len(items)} \cup narrow_compared(items, e, connected, 1, Len(items))

\* Nodes: 0 is the root, j in 1..|seps|+1 is leaf j when the root is
\* internal.  The items of a node.
branches(t) == [i \in 1..Cardinality(t.seps) |-> t.items[Sep(t, i)]]
leaf_items(t, j) == SubSeq(t.items, LeafFirst(t, j), LeafLast(t, j))

\* offset_in on a leaf whose first item is at position first.
offset_in_leaf(items, first, e, connected) ==
    LET i == binary_search(items, e, connected)
    IN IF i # 0
       THEN IF ord_matches(unwrap_or(elem_partial_cmp(e, items[i].key), After(FALSE)), connected)
            THEN [found |-> TRUE, addr |-> first + i - 1]
            ELSE [found |-> FALSE, addr |-> first + i]
       ELSE [found |-> FALSE, addr |-> first]

\* address_in that looks into the first leaf only.
address_in_first_leaf(t, e, connected) ==
    offset_in_leaf(leaf_items(t, 1), 1, e, connected)

\* address_in from the root: Ok(address of the item) or Err(address of the
\* place in a leaf where the element would be inserted).
address_in(t, e, connected) ==
    IF t.seps = {} THEN offset_in_leaf(t.items, 1, e, connected)
    ELSE LET bs == branches(t)
             i == binary_search(bs, e, connected)
         IN IF i # 0
            THEN IF ord_matches(unwrap_or(elem_partial_cmp(e, bs[i].key), After(FALSE)), connected)
                 THEN [found |-> TRUE, addr |-> Sep(t, i)]
                 ELSE offset_in_leaf(leaf_items(t, i + 1), LeafFirst(t, i + 1),
                                     e, connected)
            ELSE offset_in_leaf(leaf_items(t, 1), 1, e, connected)

\* address_of: Err(Address::nowhere()) on an empty tree is the insertion
\* point 1.
address_of(t, e, connected) ==
    IF ItemCount(t) = 0 THEN [found |-> FALSE, addr |-> 1]
    ELSE address_in(t, e, connected)

\* RangeMap::get: the value bound to key x, None when x is in no range.
get(t, x) ==
    LET a == address_of(t, KeyElem(x), FALSE)
    IN IF a.found THEN item(t, a.addr).value ELSE NoVal

(* ----------------------------- RangeMap ------------------------------ *)
\* Result of a step on the tree: ok is FALSE when the code panics; addr and
\* next are the addresses and val the value the step returns.
Ret(t, addr, next, val) == [ok |-> TRUE, tree |-> t, addr |-> addr, next |-> next, val |-> val]
Panic(t) == [ok |-> FALSE, tree |-> t, addr |-> NoAddr, next |-> NoAddr, val |-> NoVal]

\* Removes the item at addr and adds its range new_key to the following item.
\* rm is the tree after remove_at(addr).unwrap(), new_addr the address of the
\* following item in it.
merge_at(rm, new_addr, new_key, removed) ==
    IF ~rm.ok \/ new_addr = NoAddr THEN Panic(rm.tree)
    ELSE Ret(set_key_at(rm.tree, new_addr, add(item(rm.tree, new_addr).key, new_key)),
             new_addr, next_item_address(rm.tree, new_addr), removed)
merge_into(rm, addr, new_key, removed) ==
    merge_at(rm, normalize(rm.tree, addr), new_key, removed)
merge_with_next(t, addr, new_key) ==
    merge_into(remove_at_unwrap(t, addr), addr, new_key, item(t, addr).value)

\* merge_forward that never merges.
merge_forward_never(t, addr, next_addr) == Ret(t, addr, next_addr, NoVal)
merge_forward(t, addr, next_addr) ==
    IF next_addr = NoAddr THEN Ret(t, addr, next_addr, NoVal)
    ELSE IF ~has_item(t, addr) \/ ~has_item(t, next_addr) THEN Panic(t)
    ELSE IF connected_to(item(t, addr).key, item(t, next_addr).key)
            /\ item(t, addr).value = item(t, next_addr).value
         THEN merge_with_next(t, addr, item(t, addr).key)
         ELSE Ret(t, addr, next_addr, NoVal)

set_item_key(t, addr, next_addr, new_key) ==
    IF next_addr # NoAddr /\ ~has_item(t, next_addr) THEN Panic(t)
    ELSE IF next_addr # NoAddr /\ ~has_item(t, addr)
            /\ connected_to(new_key, item(t, next_addr).key) THEN Panic(t)
    ELSE IF next_addr # NoAddr
            /\ connected_to(new_key, item(t, next_addr).key)
            /\ item(t, next_addr).value = item(t, addr).value
         THEN merge_with_next(t, addr, new_key)
    ELSE IF ~has_item(t, addr) THEN Panic(t)
    ELSE Ret(set_key_at(t, addr, new_key), addr, next_addr, NoVal)

\* set_item that leaves the value of the item as it is.
set_item_old_value(t, addr, next_addr, new_key, new_value) ==
    IF next_addr # NoAddr /\ ~has_item(t, next_addr) THEN Panic(t)
    ELSE IF next_addr # NoAddr
            /\ connected_to(new_key, item(t, next_addr).key)
            /\ item(t, next_addr).value = new_value
         THEN merge_with_next(t, addr, new_key)
    ELSE IF ~has_item(t, addr) THEN Panic(t)
    ELSE Ret(set_key_at(t, addr, new_key), addr, next_addr, item(t, addr).value)
set_item(t, addr, next_addr, new_key, new_value) ==
    IF next_addr # NoAddr /\ ~has_item(t, next_addr) THEN Panic(t)
    ELSE IF next_addr # NoAddr
            /\ connected_to(new_key, item(t, next_addr).key)
            /\ item(t, next_addr).value = new_value
         THEN merge_with_next(t, addr, new_key)
    ELSE IF ~has_item(t, addr) THEN Panic(t)
    ELSE Ret(set_key_at(set_value_at(t, addr, new_value), addr, new_key),
             addr, next_addr, item(t, addr).value)

\* The tree t after the insertion or the extension at addr of insert_item.
inserted_item(t, addr) == Ret(t, addr, next_item_address(t, addr), NoVal)
\* insert_item that never extends the item at addr.
insert_item_apart(t, addr, key, value) ==
    IF ~has_item(t, addr) THEN Panic(t)
    ELSE inserted_item(insert_at(t, addr, Item(key, value)), addr)
insert_item(t, addr, key, value) ==
    IF ~has_item(t, addr) THEN Panic(t)
    ELSE IF connected_to(key, item(t, addr).key) /\ item(t, addr).value = value
         THEN inserted_item(set_key_at(t, addr, add(item(t, addr).key, key)), addr)
         ELSE inserted_item(insert_at(t, addr, Item(key, value)), addr)

\* rm is the tree after remove_at(addr).unwrap().
removed_item(rm, addr, new_addr) ==
    IF ~rm.ok \/ new_addr = NoAddr THEN Panic(rm.tree)
    ELSE Ret(rm.tree, new_addr, normalize(rm.tree, addr), NoVal)
remove_item_from(rm, addr) == removed_item(rm, addr, previous_item_address(rm.tree, addr))
remove_item(t, addr) == remove_item_from(remove_at_unwrap(t, addr), addr)

\* One turn of the loop of insert: done tells that the loop was left.
Turn(r, key, done) == [ok |-> r.ok, tree |-> r.tree, addr |-> r.addr, next |-> r.next,
                       key |-> key, done |-> done]

\* The second insertion of a turn, after the step a.
then_insert_item(a, addr, key, value, turn_key) ==
    IF ~a.ok THEN Turn(a, turn_key, TRUE)
    ELSE Turn(insert_item(a.tree, addr, key, value), turn_key, TRUE)
\* a is set_item(..), whose result is the value the item had.
then_insert_old(a, addr, key, turn_key) == then_insert_item(a, addr, key, a.val, turn_key)
\* a is insert_item(..), whose result is the address to insert at.
then_insert_at(a, key, value, turn_key) == then_insert_item(a, a.addr, key, value, turn_key)

\* The turn once the part of the item after the key is dealt with: removed
\* is removed_item_value (the item at addr was cut down to that part), t the
\* tree after it.
insert_before(t, addr, next_addr, prev_addr, key, value, prod, removed) ==
    IF prod.before.tag = "Object"
    THEN IF removed # NoVal
         THEN IF removed = value
              THEN Turn(insert_item(t, addr, add(key, prod.before.r), value), key, TRUE)
              ELSE then_insert_at(insert_item(t, addr, key, value), prod.before.r, removed, key)
         ELSE IF item(t, addr).value = value
              THEN Turn(set_item_key(t, addr, next_addr, add(key, prod.before.r)), key, TRUE)
              ELSE then_insert_old(set_item(t, addr, next_addr, key, value), addr,
                                   prod.before.r, key)
    ELSE IF prev_addr # NoAddr /\ connected_to(item(t, prev_addr).key, key)
         THEN IF removed = NoVal
              THEN Turn(remove_item(t, addr), key, FALSE)
              ELSE Turn(Ret(t, prev_addr, addr, NoVal), key, FALSE)
         ELSE IF removed # NoVal
              THEN Turn(insert_item(t, addr, key, value), key, TRUE)
              ELSE Turn(set_item(t, addr, next_addr, key, value), key, TRUE)

\* The turn of insert that does not cut the item down to its part after the key.
insert_after_uncut(t, addr, next_addr, key, value, prod) ==
    IF prod.after.tag = "Object"
    THEN insert_before(t, addr, next_addr, previous_item_address(t, addr), key, value,
                       prod, item(t, addr).value)
    ELSE insert_before(t, addr, next_addr, previous_item_address(t, addr), key, value,
                       prod, NoVal)
insert_after(t, addr, next_addr, key, value, prod) ==
    IF prod.after.tag = "Object"
    THEN insert_before(set_key_at(t, addr, prod.after.r), addr, next_addr,
                       previous_item_address(t, addr), key, value, prod, item(t, addr).value)
    ELSE insert_before(t, addr, next_addr, previous_item_address(t, addr), key, value,
                       prod, NoVal)

insert_turn(t, addr, next_addr, key, value) ==
    IF ~has_item(t, addr) THEN Turn(Panic(t), key, TRUE)
    ELSE insert_after(t, addr, next_addr, key, value, product(key, item(t, addr).key))

RECURSIVE insert_loop(_, _, _, _, _)
\* s is the turn just made.
insert_continue(s, value) ==
    IF ~s.ok \/ s.done THEN [ok |-> s.ok, tree |-> s.tree]
    ELSE insert_loop(s.tree, s.addr, s.next, s.key, value)
insert_loop(t, addr, next_addr, key, value) ==
    insert_continue(insert_turn(t, addr, next_addr, key, value), value)

\* insert that binds nothing when no stored range is connected to the key.
insert_from_found_only(t, a, key, value) ==
    IF a.found
    THEN insert_loop(t, a.addr, next_item_address(t, a.addr), key, value)
    ELSE [ok |-> TRUE, tree |-> t]
\* a is the address address_of found for the key.
insert_from(t, a, key, value) ==
    IF a.found
    THEN insert_loop(t, a.addr, next_item_address(t, a.addr), key, value)
    ELSE [ok |-> TRUE, tree |-> insert_at(t, a.addr, Item(key, value))]

\* insert that does not look at the emptiness of the key.
insert_unchecked(t, key, value) ==
    insert_from(t, address_of(t, RangeElem(key), TRUE), key, value)
\* RangeMap::insert.
insert(t, key, value) ==
    IF is_empty(key) THEN [ok |-> TRUE, tree |-> t]
    ELSE insert_from(t, address_of(t, RangeElem(key), TRUE), key, value)

\* RangeMap::remove.
RECURSIVE remove_loop(_, _, _)
\* The walk of remove that stops at the first item.
remove_continue_stop(rm, prev_addr, key) == rm
\* rm is the tree after the item at addr was cut down or removed.
remove_continue(rm, prev_addr, key) ==
    IF ~rm.ok \/ prev_addr = NoAddr THEN rm ELSE remove_loop(rm.tree, prev_addr, key)
\* remove that drops an item it should trim to its part before the key.
remove_difference_whole(t, addr, key, d) ==
    IF d.tag = "Split"
    THEN [ok |-> TRUE,
          tree |-> insert_at(set_key_at(t, addr, d.right), addr,
                             Item(d.left, item(t, addr).value))]
    ELSE IF d.tag = "Before"
    THEN remove_at_unwrap(t, addr)
    ELSE IF d.tag = "After"
    THEN remove_continue([ok |-> TRUE, tree |-> set_key_at(t, addr, d.right)],
                         previous_item_address(t, addr), key)
    ELSE remove_continue(remove_at_unwrap(t, addr), previous_item_address(t, addr), key)
\* d is the difference of the item at addr and the key.
remove_difference(t, addr, key, d) ==
    IF d.tag = "Split"
    THEN [ok |-> TRUE,
          tree |-> insert_at(set_key_at(t, addr, d.right), addr,
                             Item(d.left, item(t, addr).value))]
    ELSE IF d.tag = "Before"
    THEN [ok |-> TRUE, tree |-> set_key_at(t, addr, d.left)]
    ELSE IF d.tag = "After"
    THEN remove_continue([ok |-> TRUE, tree |-> set_key_at(t, addr, d.right)],
                         previous_item_address(t, addr), key)
    ELSE remove_continue(remove_at_unwrap(t, addr), previous_item_address(t, addr), key)
remove_loop(t, addr, key) ==
    IF has_item(t, addr) /\ intersects(item(t, addr).key, key)
    THEN remove_difference(t, addr, key, without(item(t, addr).key, key))
    ELSE [ok |-> TRUE, tree |-> t]

\* a is the address address_of found for the key.
remove_from(t, a, key) ==
    IF a.found THEN remove_loop(t, a.addr, key) ELSE [ok |-> TRUE, tree |-> t]
remove(t, key) == remove_from(t, address_of(t, RangeElem(key), FALSE), key)

\* The calls that remove makes on the tree with an address, in order: fn is
\* the method called and from the call that gave the address passed to it
\* ("remove_at": the address remove_at returned, not normalized since).
Use(fn, from) == [fn |-> fn, from |-> from]
RECURSIVE remove_uses_loop(_, _, _, _)
\* rm is the tree after the item at addr was cut down or removed; the loop
\* goes on from previous_item_address(addr).
remove_uses_continue(rm, prev_addr, key, uses) ==
    IF ~rm.ok \/ prev_addr = NoAddr THEN uses
    ELSE uses \o remove_uses_loop(rm.tree, prev_addr, "previous_item_address", key)
remove_uses_difference(t, addr, from, key, d) ==
    IF d.tag = "Split"
    THEN <<Use("item_mut", from), Use("insert_at", from)>>
    ELSE IF d.tag = "Before"
    THEN <<Use("item_mut", from)>>
    ELSE IF d.tag = "After"
    THEN remove_uses_continue([ok |-> TRUE, tree |-> set_key_at(t, addr, d.right)],
                              previous_item_address(t, addr), key,
                              <<Use("item_mut", from), Use("previous_item_address", from)>>)
    ELSE remove_uses_continue(remove_at_unwrap(t, addr), previous_item_address(t, addr), key,
                              <<Use("remove_at", from),
                                Use("previous_item_address", "remove_at")>>)
remove_uses_loop(t, addr, from, key) ==
    IF has_item(t, addr) /\ intersects(item(t, addr).key, key)
    THEN <<Use("item", from), Use("item", from)>>
         \o remove_uses_difference(t, addr, from, key, without(item(t, addr).key, key))
    ELSE <<Use("item", from)>>
remove_uses_from(t, a, key) ==
    IF a.found THEN remove_uses_loop(t, a.addr, "address_of", key) ELSE << >>
remove_uses(t, key) == remove_uses_from(t, address_of(t, RangeElem(key), FALSE), key)

\* The callback of update: f(None) is f.none; f(Some(v)) is f.to for kind
\* "const", Some(v) for "keep", Some of the other value for "other".
call(f, opt) ==
    IF opt = NoVal THEN f.none
    ELSE IF f.kind = "const" THEN f.to
    ELSE IF f.kind = "keep" THEN opt
    ELSE CHOOSE w \in Values : w # opt

\* State inside a turn of update: removed is removed_item_value.
Mid(r, removed) == [ok |-> r.ok, tree |-> r.tree, addr |-> r.addr, next |-> r.next,
                    removed |-> removed]
\* r is set_item(..), whose result is the value the item had.
MidSet(r) == Mid(r, r.val)

\* match product.after
update_after(t, addr, next_addr, prod, f) ==
    IF prod.after.tag = "Subject"
    THEN IF call(f, NoVal) # NoVal
         THEN MidSet(set_item(t, addr, next_addr, prod.after.r, call(f, NoVal)))
         ELSE Mid(Ret(t, addr, next_addr, NoVal), NoVal)
    ELSE IF prod.after.tag = "Object"
    THEN Mid(Ret(set_key_at(t, addr, prod.after.r), addr, next_addr, NoVal),
             item(t, addr).value)
    ELSE Mid(Ret(t, addr, next_addr, NoVal), NoVal)

\* match product.intersection, with the new value the callback gave.
update_value(a, prod, new_value) ==
    IF new_value = NoVal THEN a
    ELSE IF a.removed # NoVal
    THEN Mid(insert_item(a.tree, a.addr, prod.intersection.r, new_value), a.removed)
    ELSE MidSet(set_item(a.tree, a.addr, a.next, prod.intersection.r, new_value))
update_intersection(a, prod, f) ==
    IF ~a.ok \/ prod.intersection.tag = "N" THEN a
    ELSE IF a.removed # NoVal THEN update_value(a, prod, call(f, a.removed))
    ELSE IF ~has_item(a.tree, a.addr) THEN Mid(Panic(a.tree), NoVal)
    ELSE update_value(a, prod, call(f, item(a.tree, a.addr).value))

\* self.btree.remove_at(addr): the addresses of the turn stay.
removed_at(rm, b) == [ok |-> rm.ok, tree |-> rm.tree, addr |-> b.addr, next |-> b.next]
\* r is remove_item(..).
then_merge_forward(r, key) ==
    IF ~r.ok THEN Turn(r, key, TRUE)
    ELSE Turn(merge_forward(r.tree, r.addr, r.next), key, TRUE)

\* match product.before
update_before(b, prev_addr, prod, key, f) ==
    IF ~b.ok THEN Turn(b, key, TRUE)
    ELSE IF prod.before.tag = "Subject"
    THEN IF prev_addr # NoAddr /\ connected_to(item(b.tree, prev_addr).key, prod.before.r)
         THEN IF b.removed = NoVal
              THEN Turn(remove_item(b.tree, b.addr), prod.before.r, FALSE)
              ELSE Turn(Ret(b.tree, prev_addr, b.addr, NoVal), prod.before.r, FALSE)
         ELSE IF call(f, NoVal) # NoVal
              THEN IF b.removed # NoVal
                   THEN Turn(insert_item(b.tree, b.addr, prod.before.r, call(f, NoVal)),
                             key, TRUE)
                   ELSE Turn(set_item(b.tree, b.addr, b.next, prod.before.r,
                                      call(f, NoVal)), key, TRUE)
              ELSE IF b.removed = NoVal
                   THEN Turn(removed_at(remove_at(b.tree, b.addr), b), key, TRUE)
                   ELSE Turn(b, key, TRUE)
    ELSE IF prod.before.tag = "Object"
    THEN IF b.removed # NoVal
         THEN Turn(insert_item(b.tree, b.addr, prod.before.r, b.removed), key, TRUE)
         ELSE Turn(set_item_key(b.tree, b.addr, b.next, prod.before.r), key, TRUE)
    ELSE IF prev_addr # NoAddr
         THEN IF b.removed = NoVal
              THEN then_merge_forward(remove_item(b.tree, b.addr), key)
              ELSE Turn(merge_forward(b.tree, prev_addr, b.addr), key, TRUE)
         ELSE IF b.removed = NoVal
              THEN Turn(removed_at(remove_at_unwrap(b.tree, b.addr), b), key, TRUE)
              ELSE Turn(b, key, TRUE)
\* b is the turn after the intersection was dealt with.
update_previous(b, prod, key, f) ==
    update_before(b, previous_item_address(b.tree, b.addr), prod, key, f)

update_product(t, addr, next_addr, prod, key, f) ==
    update_previous(update_intersection(update_after(t, addr, next_addr, prod, f), prod, f),
                    prod, key, f)
update_turn(t, addr, next_addr, key, f) ==
    IF ~has_item(t, addr) THEN Turn(Panic(t), key, TRUE)
    ELSE update_product(t, addr, next_addr, product(key, item(t, addr).key), key, f)

RECURSIVE update_loop(_, _, _, _, _)
\* s is the turn just made.
update_continue(s, f) ==
    IF ~s.ok \/ s.done THEN [ok |-> s.ok, tree |-> s.tree]
    ELSE update_loop(s.tree, s.addr, s.next, s.key, f)
update_loop(t, addr, next_addr, key, f) ==
    update_continue(update_turn(t, addr, next_addr, key, f), f)

\* update that fills nothing when no stored range is connected to the key.
update_from_found_only(t, a, key, f) ==
    IF a.found
    THEN update_loop(t, a.addr, next_item_address(t, a.addr), key, f)
    ELSE [ok |-> TRUE, tree |-> t]
\* a is the address address_of found for the key.
update_from(t, a, key, f) ==
    IF a.found
    THEN update_loop(t, a.addr, next_item_address(t, a.addr), key, f)
    ELSE IF call(f, NoVal) # NoVal
         THEN [ok |-> TRUE, tree |-> insert_at(t, a.addr, Item(key, call(f, NoVal)))]
         ELSE [ok |-> TRUE, tree |-> t]

\* RangeMap::update.
update(t, key, f) ==
    IF is_empty(key) THEN [ok |-> TRUE, tree |-> t]
    ELSE update_from(t, address_of(t, RangeElem(key), TRUE), key, f)

\* Measure::len of a range over the discrete bounded domain: the number of
\* keys in it.
range_len(r) == IF is_empty(r) THEN 0 ELSE Hi(r) - Lo(r) + 1
\* RangeMap::iter: the items in order.
iter_items(t) == t.items

\* RangeMap::len: the sum of the lengths of the ranges that iteration yields.
RECURSIVE len_from(_, _)
len_from(items, i) ==
    IF i > Len(items) THEN 0 ELSE range_len(items[i].key) + len_from(items, i + 1)
\* len that counts each range as one key.
len_ranges(t) == Len(iter_items(t))
len(t) == len_from(iter_items(t), 1)
\* RangeMap::is_empty.
map_is_empty(t) == len(t) = 0
\* RangeMap::range_count.
range_count(t) == ItemCount(t)

\* An invocation of the callback of update: arg is the argument it is given
\* (None or Some(v)), part the piece of the range it is asked about.
Invocation(arg, part) == [arg |-> arg, part |-> part]

\* match product.after: f(None) for the part of the key after the item.
after_calls(prod) ==
    IF prod.after.tag = "Subject" THEN <<Invocation(NoVal, prod.after.r)>> ELSE << >>
\* match product.intersection that always hands f the value now in the item.
intersection_calls_current(a, prod) ==
    IF ~a.ok \/ prod.intersection.tag = "N" \/ ~has_item(a.tree, a.addr) THEN << >>
    ELSE <<Invocation(item(a.tree, a.addr).value, prod.intersection.r)>>
\* match product.intersection: f(Some(value)), the value being the one taken
\* out of the item or the one still in it.  a is the turn after product.after.
intersection_calls(a, prod) ==
    IF ~a.ok \/ prod.intersection.tag = "N" THEN << >>
    ELSE IF a.removed # NoVal THEN <<Invocation(a.removed, prod.intersection.r)>>
    ELSE IF ~has_item(a.tree, a.addr) THEN << >>
    ELSE <<Invocation(item(a.tree, a.addr).value, prod.intersection.r)>>
\* match product.before: f(None) when no previous item is connected to the
\* part of the key before the item.  b is the turn after the intersection.
before_calls(b, prev_addr, prod) ==
    IF ~b.ok \/ prod.before.tag # "Subject" THEN << >>
    ELSE IF prev_addr # NoAddr /\ connected_to(item(b.tree, prev_addr).key, prod.before.r)
    THEN << >>
    ELSE <<Invocation(NoVal, prod.before.r)>>

\* The invocations of one turn of the loop of update, in order.
calls_from_intersection(b, prod) ==
    before_calls(b, previous_item_address(b.tree, b.addr), prod)
calls_from_after(a, prod, f) ==
    intersection_calls(a, prod)
        \o calls_from_intersection(update_intersection(a, prod, f), prod)
calls_of_product(t, addr, next_addr, prod, f) ==
    after_calls(prod) \o calls_from_after(update_after(t, addr, next_addr, prod, f), prod, f)
turn_calls(t, addr, next_addr, key, f) ==
    IF ~has_item(t, addr) THEN << >>
    ELSE calls_of_product(t, addr, next_addr, product(key, item(t, addr).key), f)

RECURSIVE update_calls_loop(_, _, _, _, _)
\* s is the turn just made.
update_calls_continue(s, f) ==
    IF ~s.ok \/ s.done THEN << >>
    ELSE update_calls_loop(s.tree, s.addr, s.next, s.key, f)
update_calls_loop(t, addr, next_addr, key, f) ==
    turn_calls(t, addr, next_addr, key, f)
        \o update_calls_continue(update_turn(t, addr, next_addr, key, f), f)
\* a is the address address_of found for the key: case (G) calls f(None)
\* for the whole key.
update_calls_from(t, a, key, f) ==
    IF a.found
    THEN update_calls_loop(t, a.addr, next_item_address(t, a.addr), key, f)
    ELSE <<Invocation(NoVal, key)>>
\* The invocations of f that update(key, f) makes on the tree t, in order.
update_calls(t, key, f) ==
    IF is_empty(key) THEN << >>
    ELSE update_calls_from(t, address_of(t, RangeElem(key), TRUE), key, f)

\* AnyRange == AnyRange: the same first and last key.
range_eq(r, o) == Lo(r) = Lo(o) /\ Hi(r) = Hi(o)
\* Two entries of the tree are equal: equal keys and equal values.
entry_eq(a, b) == range_eq(a.key, b.key) /\ a.value = b.value
\* RangeMap == RangeMap: self.btree == other.btree, the same items in
\* iteration order.
map_eq(t, o) ==
    /\ ItemCount(t) = ItemCount(o)
    /\ \A i \in 1..ItemCount(t) : entry_eq(t.items[i], o.items[i])

\* The backward walks of insert, update and remove: the key of the stored
\* item at addr at the head of each iteration of the loop, in order.
Walked(t, addr) == IF has_item(t, addr) THEN <<item(t, addr).key>> ELSE << >>
RECURSIVE insert_walk_loop(_, _, _, _, _)
insert_walk_continue(s, value) ==
    IF ~s.ok \/ s.done THEN << >>
    ELSE insert_walk_loop(s.tree, s.addr, s.next, s.key, value)
insert_walk_loop(t, addr, next_addr, key, value) ==
    Walked(t, addr) \o insert_walk_continue(insert_turn(t, addr, next_addr, key, value), value)
insert_walk_from(t, a, key, value) ==
    IF a.found THEN insert_walk_loop(t, a.addr, next_item_address(t, a.addr), key, value)
    ELSE << >>
insert_walk(t, key, value) ==
    IF is_empty(key) THEN << >>
    ELSE insert_walk_from(t, address_of(t, RangeElem(key), TRUE), key, value)

RECURSIVE update_walk_loop(_, _, _, _, _)
update_walk_continue(s, f) ==
    IF ~s.ok \/ s.done THEN << >>
    ELSE update_walk_loop(s.tree, s.addr, s.next, s.key, f)
update_walk_loop(t, addr, next_addr, key, f) ==
    Walked(t, addr) \o update_walk_continue(update_turn(t, addr, next_addr, key, f), f)
update_walk_from(t, a, key, f) ==
    IF a.found THEN update_walk_loop(t, a.addr, next_item_address(t, a.addr), key, f)
    ELSE << >>
update_walk(t, key, f) ==
    IF is_empty(key) THEN << >>
    ELSE update_walk_from(t, address_of(t, RangeElem(key), TRUE), key, f)

RECURSIVE remove_walk_loop(_, _, _)
\* The walk of remove that goes on from the address it has, not from the one
\* before it.
remove_walk_previous_same(rm, addr, key) ==
    IF ~rm.ok THEN << >> ELSE remove_walk_loop(rm.tree, addr, key)
\* match self.btree.previous_item_address(addr): rm is the tree after the item
\* at addr was cut down or removed (addr is then the address remove_at gave).
remove_walk_previous(rm, addr, key) ==
    IF ~rm.ok \/ previous_item_address(rm.tree, addr) = NoAddr THEN << >>
    ELSE remove_walk_loop(rm.tree, previous_item_address(rm.tree, addr), key)
remove_walk_difference(t, addr, key, d) ==
    IF d.tag = "Split" \/ d.tag = "Before" THEN << >>
    ELSE IF d.tag = "After"
    THEN remove_walk_previous([ok |-> TRUE, tree |-> set_key_at(t, addr, d.right)], addr, key)
    ELSE remove_walk_previous(remove_at_unwrap(t, addr), addr, key)
remove_walk_loop(t, addr, key) ==
    Walked(t, addr) \o
    IF has_item(t, addr) /\ intersects(item(t, addr).key, key)
    THEN remove_walk_difference(t, addr, key, without(item(t, addr).key, key))
    ELSE << >>
remove_walk_from(t, a, key) ==
    IF a.found THEN remove_walk_loop(t, a.addr, key) ELSE << >>
remove_walk(t, key) == remove_walk_from(t, address_of(t, RangeElem(key), FALSE), key)

\* The tree as it is at each invocation of f by update(key, f), in the order
\* of update_calls: what a callback that aborts leaves behind.
Snapshots(calls, t) == [i \in 1..Len(calls) |-> t]
trees_from_intersection(b, prod) ==
    Snapshots(calls_from_intersection(b, prod), b.tree)
trees_from_after(a, prod, f) ==
    Snapshots(intersection_calls(a, prod), a.tree)
        \o trees_from_intersection(update_intersection(a, prod, f), prod)
trees_of_product(t, addr, next_addr, prod, f) ==
    Snapshots(after_calls(prod), t)
        \o trees_from_after(update_after(t, addr, next_addr, prod, f), prod, f)
turn_trees(t, addr, next_addr, key, f) ==
    IF ~has_item(t, addr) THEN << >>
    ELSE trees_of_product(t, addr, next_addr, product(key, item(t, addr).key), f)
RECURSIVE update_trees_loop(_, _, _, _, _)
update_trees_continue(s, f) ==
    IF ~s.ok \/ s.done THEN << >>
    ELSE update_trees_loop(s.tree, s.addr, s.next, s.key, f)
update_trees_loop(t, addr, next_addr, key, f) ==
    turn_trees(t, addr, next_addr, key, f)
        \o update_trees_continue(update_turn(t, addr, next_addr, key, f), f)
update_trees_from(t, a, key, f) ==
    IF a.found
    THEN update_trees_loop(t, a.addr, next_item_address(t, a.addr), key, f)
    ELSE <<t>>
update_trees(t, key, f) ==
    IF is_empty(key) THEN << >>
    ELSE update_trees_from(t, address_of(t, RangeElem(key), TRUE), key, f)

(* ------------------------------- gaps --------------------------------- *)
\* Gaps: inner is the position of the item the inner iterator yields next,
\* prev the bound kept from the last range (hasPrev: Some), done the flag.
gaps(t) == [inner |-> 1, hasPrev |-> FALSE, prev |-> Unbounded, done |-> FALSE]

\* The loop of Gaps::next: out is the gap yielded (some: Some), g the
\* iterator afterwards.  The loop does not look at done.
RECURSIVE gaps_loop(_, _)
\* Gaps::next that yields nothing when the map ends with no bound kept.
gaps_loop_silent(t, g) ==
    IF g.inner <= ItemCount(t)
    THEN LET range == t.items[g.inner].key
             start == IF g.hasPrev THEN g.prev ELSE Unbounded
             g1 == [inner |-> g.inner + 1,
                    hasPrev |-> range.end.k # "U",
                    prev |-> IF range.end.k = "U" THEN Unbounded
                             ELSE invert_bound(range.end),
                    done |-> IF range.end.k = "U" THEN TRUE ELSE g.done]
             gap == AnyRange(start, invert_bound(range.start))
         IN IF range.start.k = "U" THEN gaps_loop(t, g1)
            ELSE IF ~is_empty(gap) THEN [g |-> g1, some |-> TRUE, out |-> gap]
            ELSE gaps_loop(t, g1)
    ELSE [g |-> [g EXCEPT !.done = TRUE, !.hasPrev = FALSE, !.prev = Unbounded],
          some |-> FALSE, out |-> NoRange]
gaps_loop(t, g) ==
    IF g.inner <= ItemCount(t)
    THEN LET range == t.items[g.inner].key
             start == IF g.hasPrev THEN g.prev ELSE Unbounded
             g1 == [inner |-> g.inner + 1,
                    hasPrev |-> range.end.k # "U",
                    prev |-> IF range.end.k = "U" THEN Unbounded
                             ELSE invert_bound(range.end),
                    done |-> IF range.end.k = "U" THEN TRUE ELSE g.done]
             gap == AnyRange(start, invert_bound(range.start))
         IN IF range.start.k = "U" THEN gaps_loop(t, g1)
            ELSE IF ~is_empty(gap) THEN [g |-> g1, some |-> TRUE, out |-> gap]
            ELSE gaps_loop(t, g1)
    ELSE LET g1 == [g EXCEPT !.done = TRUE, !.hasPrev = FALSE, !.prev = Unbounded]
         IN IF g.hasPrev
            THEN LET gap == AnyRange(g.prev, Unbounded)
                 IN IF is_empty(gap) THEN [g |-> g1, some |-> FALSE, out |-> NoRange]
                    ELSE [g |-> g1, some |-> TRUE, out |-> gap]
            ELSE [g |-> g1, some |-> TRUE, out |-> AnyRange(Unbounded, Unbounded)]

\* Gaps::next.
gaps_next(t, g) ==
    IF g.done THEN [g |-> g, some |-> FALSE, out |-> NoRange] ELSE gaps_loop(t, g)

\* The gaps yielded by gaps() until its first None.
RECURSIVE gaps_from(_, _)
gaps_from(t, g) ==
    LET n == gaps_next(t, g)
    IN IF n.some THEN <<n.out>> \o gaps_from(t, n.g) ELSE << >>
all_gaps(t) == gaps_from(t, gaps(t))

(* ------------------------------ BTreeMap ------------------------------ *)
\* BTreeMap { nodes, root, len } over integer keys: tree stands for the nodes,
\* root is FALSE for None.  BTreeMap::new.
btree_new == [tree |-> EmptyTree, root |-> FALSE, len |-> 0]

\* BTreeMap::is_empty and BTreeMap::len.
btree_is_empty(m) == ~m.root
len_of(m) == m.len

\* Search of a node for a key: the offset (from 1) of the first item whose
\* key is not below k, Len(items) + 1 when there is none, by bisection of
\* lo..hi.
RECURSIVE bisect(_, _, _, _)
bisect(items, k, lo, hi) ==
    IF lo >= hi THEN lo
    ELSE LET mid == (lo + hi) \div 2
         IN IF items[mid].key < k THEN bisect(items, k, mid + 1, hi)
            ELSE bisect(items, k, lo, mid)
first_at_least(items, k) == bisect(items, k, 1, Len(items) + 1)

\* The search in leaf j, whose first item is at in-order position first.
btree_offset_in_leaf(items, first, k) ==
    LET i == first_at_least(items, k)
    IN [found |-> i <= Len(items) /\ items[i].key = k, addr |-> first + i - 1]
\* The descent that does not look for the key among the separators.
btree_address_of_leaf(t, k) ==
    btree_offset_in_leaf(leaf_items(t, first_at_least(branches(t), k)),
                         LeafFirst(t, first_at_least(branches(t), k)), k)
\* The descent from the root: the address of the item of key k, or of the
\* place in a leaf where it goes.
btree_address_of(t, k) ==
    IF t.seps = {} THEN btree_offset_in_leaf(t.items, 1, k)
    ELSE LET bs == branches(t)
             i == first_at_least(bs, k)
         IN IF i <= Len(bs) /\ bs[i].key = k
            THEN [found |-> TRUE, addr |-> Sep(t, i)]
            ELSE btree_offset_in_leaf(leaf_items(t, i), LeafFirst(t, i), k)

\* BTreeMap::get: None when there is no root, else the search from the root.
btree_get(m, k) ==
    IF ~m.root THEN NoVal
    ELSE LET a == btree_address_of(m.tree, k)
         IN IF a.found THEN item(m.tree, a.addr).value ELSE NoVal

\* insert_at on the map: the item is placed, len grows by one and an empty
\* map gets a root.
btree_insert_at(m, addr, it) ==
    [tree |-> insert_at(m.tree, addr, it), root |-> TRUE, len |-> m.len + 1]
\* insert that puts every new item in front.
btree_insert_front(m, k, v) ==
    IF m.root /\ btree_address_of(m.tree, k).found
    THEN [m EXCEPT !.tree = set_value_at(m.tree, btree_address_of(m.tree, k).addr, v)]
    ELSE btree_insert_at(m, 1, Item(k, v))
\* BTreeMap::insert: the value of a key that is there is replaced.
btree_insert(m, k, v) ==
    LET a == btree_address_of(m.tree, k)
    IN IF m.root /\ a.found THEN [m EXCEPT !.tree = set_value_at(m.tree, a.addr, v)]
       ELSE btree_insert_at(m, a.addr, Item(k, v))

\* remove_at that keeps the root of a map left with no item.
btree_removed_rooted(m, r) ==
    [ok |-> r.ok /\ r.some, map |-> [tree |-> r.tree, root |-> TRUE, len |-> m.len - 1]]
\* remove_at on the map: r is remove_at of the tree; len shrinks by one and
\* a root that is a leaf left with no item is released.
btree_removed(m, r) ==
    [ok |-> r.ok /\ r.some,
     map |-> [tree |-> r.tree,
              root |-> ~(r.tree.seps = {} /\ ItemCount(r.tree) = 0),
              len |-> m.len - 1]]
btree_remove_at(m, addr) == btree_removed(m, remove_at(m.tree, addr))
\* BTreeMap::remove: nothing happens for a key that is not there.
btree_remove(m, k) ==
    LET a == btree_address_of(m.tree, k)
    IN IF m.root /\ a.found THEN btree_remove_at(m, a.addr)
       ELSE [ok |-> TRUE, map |-> m]

(* ------------------------------- RBTree ------------------------------- *)
\* The values put into the RBTrees are 0..RBMax.
RBMax == 4

\* Option<T>.
None == [some |-> FALSE, val |-> 0]
Some(v) == [some |-> TRUE, val |-> v]

\* The nodes under root are held as the set of the values in them; their
\* in-order traversal is the values in ascending order.
RECURSIVE ordered(_)
ordered(S) ==
    IF S = {} THEN << >>
    ELSE LET m == CHOOSE x \in S : \A y \in S : x <= y
         IN <<m>> \o ordered(S \ {m})
\* Node::insert: Some(the value that was there) for a value already in.
node_insert(S, v) == [old |-> IF v \in S THEN Some(v) ELSE None, root |-> S \cup {v}]
\* Node::remove: the value taken out, None when it is not in.
node_remove(S, v) == [old |-> IF v \in S THEN Some(v) ELSE None, root |-> S \ {v}]
\* Node::pop(back): the first value in order, or the last, taken out.
node_pop(S, back) ==
    IF S = {} THEN [old |-> None, root |-> S]
    ELSE LET v == IF back THEN ordered(S)[Cardinality(S)] ELSE ordered(S)[1]
         IN [old |-> Some(v), root |-> S \ {v}]

\* RBTree::new and RBTree::clear.
rb_new == [root |-> {}, contained |-> 0]
rb_clear(t) == [root |-> {}, contained |-> 0]
\* RBTree::len and RBTree::is_empty.
rb_len(t) == t.contained
rb_is_empty(t) == rb_len(t) = 0

\* insert that counts every call.
rb_inserted_counting(t, r) ==
    [tree |-> [root |-> r.root, contained |-> t.contained + 1], ret |-> ~r.old.some]
\* RBTree::insert: r is root.insert(val); ret is the boolean returned.
rb_inserted(t, r) ==
    IF r.old.some THEN [tree |-> [root |-> r.root, contained |-> t.contained], ret |-> FALSE]
    ELSE [tree |-> [root |-> r.root, contained |-> t.contained + 1], ret |-> TRUE]
rb_insert(t, v) == rb_inserted(t, node_insert(t.root, v))
\* RBTree::take, remove, pop and pop_back: r is what root.remove or root.pop
\* gave; ret is the Option returned (remove returns whether it is Some).
rb_taken(t, r) ==
    IF r.old.some THEN [tree |-> [root |-> r.root, contained |-> t.contained - 1], ret |-> r.old]
    ELSE [tree |-> [root |-> r.root, contained |-> t.contained], ret |-> None]
rb_take(t, v) == rb_taken(t, node_remove(t.root, v))
rb_pop(t, back) == rb_taken(t, node_pop(t.root, back))

\* RBTree::iter: rest is what the stack of nodes still leads to, in order.
rb_iter(t) == [remaining |-> rb_len(t), rest |-> ordered(t.root)]
\* Iter::next that counts a call that yields nothing.
iter_next_counting(it) ==
    IF it.rest = << >> THEN [it |-> [it EXCEPT !.remaining = it.remaining - 1], res |-> None]
    ELSE [it |-> [remaining |-> it.remaining - 1, rest |-> Tail(it.rest)],
          res |-> Some(Head(it.rest))]
\* Iter::next.
iter_next(it) ==
    IF it.rest = << >> THEN [it |-> it, res |-> None]
    ELSE [it |-> [remaining |-> it.remaining - 1, rest |-> Tail(it.rest)],
          res |-> Some(Head(it.rest))]

\* Iter::len.
iter_len(it) == it.remaining
\* The iterator it as its first None leaves it, and what it yields until then.
RECURSIVE iter_drained(_)
iter_drained(it) ==
    IF iter_next(it).res.some THEN iter_drained(iter_next(it).it) ELSE iter_next(it).it
RECURSIVE iter_collect(_)
iter_collect(it) ==
    IF iter_next(it).res.some THEN <<iter_next(it).res.val>> \o iter_collect(iter_next(it).it)
    ELSE << >>

\* RBTree::difference, symmetric_difference, intersection and union: the iterator over self and
\* other with the first value of each taken.
set_iter(kind, self, other) ==
    [kind |-> kind,
     nextl |-> iter_next(rb_iter(self)).res, left |-> iter_next(rb_iter(self)).it,
     nextr |-> iter_next(rb_iter(other)).res, right |-> iter_next(rb_iter(other)).it]
\* self.nextl = self.left.next() and self.nextr = self.right.next().
advance_left(d) == [d EXCEPT !.nextl = iter_next(d.left).res, !.left = iter_next(d.left).it]
advance_right(d) == [d EXCEPT !.nextr = iter_next(d.right).res, !.right = iter_next(d.right).it]

RECURSIVE difference_next(_)
RECURSIVE difference_right(_, _)
\* The inner loop of Difference::next, d.nextl already advanced past vl.
difference_right(d, vl) ==
    IF ~d.nextr.some \/ vl < d.nextr.val THEN [it |-> d, res |-> Some(vl)]
    ELSE IF vl = d.nextr.val THEN difference_next(advance_right(d))
    ELSE difference_right(advance_right(d), vl)
\* Difference::next that does not step over the value found in both.
difference_next_keep(d) ==
    IF ~d.nextl.some THEN [it |-> d, res |-> None]
    ELSE [it |-> advance_left(d), res |-> d.nextl]
\* Difference::next.
difference_next(d) ==
    IF ~d.nextl.some THEN [it |-> d, res |-> None]
    ELSE difference_right(advance_left(d), d.nextl.val)

\* Intersection::next.
RECURSIVE intersection_next(_)
intersection_next(d) ==
    IF ~d.nextl.some \/ ~d.nextr.some THEN [it |-> d, res |-> None]
    ELSE IF d.nextl.val < d.nextr.val THEN intersection_next(advance_left(d))
    ELSE IF d.nextl.val = d.nextr.val
    THEN [it |-> advance_left(advance_right(d)), res |-> d.nextl]
    ELSE intersection_next(advance_right(d))

\* Union::next.
union_next(d) ==
    IF d.nextl.some
    THEN IF d.nextr.some
         THEN IF d.nextl.val < d.nextr.val THEN [it |-> advance_left(d), res |-> d.nextl]
              ELSE IF d.nextl.val = d.nextr.val
              THEN [it |-> advance_left(advance_right(d)), res |-> d.nextl]
              ELSE [it |-> advance_right(d), res |-> d.nextr]
         ELSE [it |-> advance_left(d), res |-> d.nextl]
    ELSE [it |-> advance_right(d), res |-> d.nextr]

\* SymmetricDifference::next that ends when self has no value left.
RECURSIVE symmetric_difference_next_left(_)
symmetric_difference_next_left(d) ==
    IF d.nextl.some
    THEN IF d.nextr.some
         THEN IF d.nextl.val < d.nextr.val THEN [it |-> advance_left(d), res |-> d.nextl]
              ELSE IF d.nextl.val = d.nextr.val
              THEN symmetric_difference_next_left(advance_left(advance_right(d)))
              ELSE [it |-> advance_right(d), res |-> d.nextr]
         ELSE [it |-> advance_left(d), res |-> d.nextl]
    ELSE [it |-> d, res |-> None]
\* SymmetricDifference::next.
RECURSIVE symmetric_difference_next(_)
symmetric_difference_next(d) ==
    IF d.nextl.some
    THEN IF d.nextr.some
         THEN IF d.nextl.val < d.nextr.val THEN [it |-> advance_left(d), res |-> d.nextl]
              ELSE IF d.nextl.val = d.nextr.val
              THEN symmetric_difference_next(advance_left(advance_right(d)))
              ELSE [it |-> advance_right(d), res |-> d.nextr]
         ELSE [it |-> advance_left(d), res |-> d.nextl]
    ELSE [it |-> advance_right(d), res |-> d.nextr]

\* next() of the iterator d, by its kind.
set_next(d) ==
    IF d.kind = "difference" THEN difference_next(d)
    ELSE IF d.kind = "symmetric_difference" THEN symmetric_difference_next(d)
    ELSE IF d.kind = "intersection" THEN intersection_next(d)
    ELSE union_next(d)
\* Iterator::collect and Iterator::count: every value d yields until its
\* first None, and how many there are.
RECURSIVE collect(_)
collect(d) ==
    IF set_next(d).res.some THEN <<set_next(d).res.val>> \o collect(set_next(d).it)
    ELSE << >>
count(d) == Len(collect(d))

\* RBTree::is_disjoint.
is_disjoint(self, other) == ~set_next(set_iter("intersection", self, other)).res.some
\* is_subset that compares the count with the length of other.
is_subset_of_length(self, other) ==
    count(set_iter("intersection", self, other)) = rb_len(other)
\* RBTree::is_subset.
is_subset(self, other) == count(set_iter("intersection", self, other)) = rb_len(self)
\* RBTree::is_superset.
is_superset(self, other) == count(set_iter("intersection", other, self)) = rb_len(other)

(* ------------------------------- Offset ------------------------------- *)
\* usize is UsizeBits wide.
UsizeBits == 3
usize_MAX == 2 ^ UsizeBits - 1
usize == 0..usize_MAX
\* Offset(usize): the offsets are their raw values.
Offset_before == usize_MAX
Offset_from(i) == i
Offset_is_before(o) == o = usize_MAX
Offset_value(o) == IF o = usize_MAX THEN None ELSE Some(o)
\* Offset::decr
Offset_decr(o) == IF o = 0 THEN usize_MAX ELSE o - 1
\* usize::cmp
usize_cmp(x, y) == IF x < y THEN "Less" ELSE IF x = y THEN "Equal" ELSE "Greater"
\* Ord::cmp that compares the raw values.
Offset_cmp_raw(a, b) == usize_cmp(a, b)
\* Ord::cmp for Offset.
Offset_cmp(a, b) ==
    IF a = usize_MAX \/ b = usize_MAX
    THEN IF a = usize_MAX /\ b = usize_MAX THEN "Equal"
         ELSE IF a = usize_MAX THEN "Less"
         ELSE "Greater"
    ELSE usize_cmp(a, b)
\* PartialOrd::partial_cmp for Offset: Option<Ordering>, val holding the ordering.
Offset_partial_cmp(a, b) ==
    IF a = usize_MAX \/ b = usize_MAX
    THEN IF a = usize_MAX /\ b = usize_MAX THEN Some("Equal")
         ELSE IF a = usize_MAX THEN Some("Less")
         ELSE Some("Greater")
    ELSE Some(usize_cmp(a, b))

(* -------------------------------- Dva --------------------------------- *)
\* A u64 is the set of the positions of its bits that are 1.
u64_BITS == 64
\* x >> n, x << n (the bits shifted out are lost), x ^ y, x & y.
shr(x, n) == {i - n : i \in {j \in x : j >= n}}
shl(x, n) == {i + n : i \in {j \in x : j + n < u64_BITS}}
bxor(x, y) == (x \ y) \cup (y \ x)
band(x, y) == x \cap y
\* (1 << len) - 1, and x < (1 << len).
low_mask(length) == 0..(length - 1)
below_pow2(x, length) == \A i \in x : i < length
\* P2Ext::p2phase and P2Ext::is_p2aligned with align = 1 << len.
p2phase(x, length) == band(x, low_mask(length))
is_p2aligned(x, length) == band(x, low_mask(length)) = {}

\* BitOptExt for u64.
bf_decode(x, low, length) == p2phase(shr(x, low), length)
\* bf_encode that does not cut the value to len bits.
bf_encode_whole(x, low, length) == shl(x, low)
bf_encode(x, low, length) == shl(p2phase(x, length), low)
bf_get(x, low, length) == bf_decode(x, low, length)
\* ok is what the assertions of bf_set say; word is the new *self.
bf_set(x, low, length, val) ==
    [ok |-> below_pow2(val, length) /\ low + length <= u64_BITS,
     word |-> bxor(x, bf_encode(bxor(shr(x, low), val), low, length))]
\* bf_get_sb and bf_set_sb with bias 0, as Dva calls them.
bf_get_sb(x, low, length, shift) == shl(bf_get(x, low, length), shift)
bf_set_sb(x, low, length, shift, val) ==
    [ok |-> is_p2aligned(val, shift) /\ bf_set(x, low, length, shr(val, shift)).ok,
     word |-> bf_set(x, low, length, shr(val, shift)).word]

SPA_MINBLOCKSHIFT == 9
SPA_ASIZEBITS == 24
SPA_VDEVBITS == 24
\* Dva: dva_word[0] is d[1], dva_word[1] is d[2].
Dva_new == <<{}, {}>>
\* w is what the setter of the bit field gave for dva_word[n].
Dva_set(d, n, w) == [ok |-> w.ok, dva |-> [d EXCEPT ![n] = w.word]]
get_asize(d) == bf_get_sb(d[1], 0, SPA_ASIZEBITS, SPA_MINBLOCKSHIFT)
set_asize(d, size) == Dva_set(d, 1, bf_set_sb(d[1], 0, SPA_ASIZEBITS, SPA_MINBLOCKSHIFT, size))
get_grid(d) == bf_get(d[1], 24, 8)
set_grid(d, grid) == Dva_set(d, 1, bf_set(d[1], 24, 8, grid))
get_vdev(d) == bf_get(d[1], 32, SPA_VDEVBITS)
set_vdev(d, x) == Dva_set(d, 1, bf_set(d[1], 32, SPA_VDEVBITS, x))
get_offset(d) == bf_get_sb(d[2], 0, 63, SPA_MINBLOCKSHIFT)
set_offset(d, offset) == Dva_set(d, 2, bf_set_sb(d[2], 0, 63, SPA_MINBLOCKSHIFT, offset))
get_gang(d) == bf_get_sb(d[2], 0, 63, SPA_MINBLOCKSHIFT)
set_gang(d, x) == Dva_set(d, 2, bf_set_sb(d[2], 0, 63, SPA_MINBLOCKSHIFT, x))

(* -------------------------------- slab --------------------------------- *)
\* The nodes of a BTreeMap in its slab: nodes is the set of the ids allocated,
\* root the id in BTreeMap::root, leaves the ids of the leaves from left to
\* right (the root alone when it is a leaf).
slab_new == [nodes |-> {}, root |-> None, leaves |-> << >>]
\* The slab gives the lowest free id to a new node.
allocate(nodes) == CHOOSE id \in 0..Cardinality(nodes) :
    id \notin nodes /\ \A o \in 0..(id - 1) : o \in nodes
\* The ids reachable from the root.
reachable(s) ==
    IF s.root.some THEN {s.root.val} \cup {s.leaves[j] : j \in 1..Len(s.leaves)} ELSE {}
\* The slab after the split of leaf j: the right half is a new node, and the
\* split of a root is followed by the allocation of the new root.
slab_split(s, j, is_root) ==
    LET right == allocate(s.nodes)
        new_root == allocate(s.nodes \cup {right})
    IN IF is_root
       THEN [nodes |-> s.nodes \cup {right, new_root}, root |-> Some(new_root),
             leaves |-> InsertSeq(s.leaves, j + 1, right)]
       ELSE [s EXCEPT !.nodes = @ \cup {right},
                      !.leaves = InsertSeq(@, j + 1, right)]
\* The slab after insert_at(addr, item) on the tree t: an empty map gets a
\* root, a leaf that overflows is split.
slab_insert_at(s, t, addr) ==
    IF ~s.root.some
    THEN [nodes |-> {allocate({})}, root |-> Some(allocate({})), leaves |-> <<allocate({})>>]
    ELSE IF LeafLast(t, LeafOf(t, addr)) - LeafFirst(t, LeafOf(t, addr)) + 2 >= M
         THEN slab_split(s, LeafOf(t, addr), t.seps = {})
         ELSE s
\* The slab after remove_at left the tree t: a root that is a leaf with no
\* item is released; the rotations release nothing, and merge, which would,
\* is not reached.
slab_remove_at(s, t) ==
    IF s.root.some /\ t.seps = {} /\ ItemCount(t) = 0
    THEN [nodes |-> s.nodes \ {s.root.val}, root |-> None, leaves |-> << >>]
    ELSE s

(* ------------------------------ children ------------------------------ *)
\* A node as its iterators see it: a leaf, or an internal node of a first
\* child and branches, each the separator item left of a child and the child.
Branch(it, child) == [item |-> it, child |-> child]
LeafNode == [leaf |-> TRUE, first_child |-> 0, branches |-> << >>]
InternalNode(first, rest) ==
    [leaf |-> FALSE, first_child |-> first, branches |-> rest]
\* Peekable::peek on the branches still to come.
peek_item(rest) == IF Len(rest) = 0 THEN None ELSE Some(rest[1].item)

\* Node::children: Children::Leaf or Children::Internal(first, rest).
children(node) ==
    [leaf |-> node.leaf,
     first |-> IF node.leaf THEN None ELSE Some(node.first_child),
     rest |-> node.branches]
\* Children::next: out is what it returns, it the iterator afterwards.
Children_next(it) ==
    IF it.leaf THEN [out |-> None, it |-> it]
    ELSE IF it.first.some
         THEN [out |-> Some(it.first.val), it |-> [it EXCEPT !.first = None]]
         ELSE IF Len(it.rest) = 0 THEN [out |-> None, it |-> it]
              ELSE [out |-> Some(it.rest[1].child), it |-> [it EXCEPT !.rest = Tail(@)]]

\* Node::children_with_separators: ChildrenWithSeparators::Leaf or
\* ChildrenWithSeparators::Internal(first, left_sep, rest).
children_with_separators(node) ==
    [leaf |-> node.leaf,
     first |-> IF node.leaf THEN None ELSE Some(node.first_child),
     left_sep |-> None,
     rest |-> node.branches]
\* An item of ChildrenWithSeparators.
Triple(left, child, right) == [left |-> left, child |-> child, right |-> right]
NoTriple == Triple(None, 0, None)
\* ChildrenWithSeparators::next that does not keep the separator right of
\* the first child.
ChildrenWithSeparators_next_forgetful(it) ==
    IF it.leaf THEN [some |-> FALSE, out |-> NoTriple, it |-> it]
    ELSE IF it.first.some
         THEN [some |-> TRUE,
               out |-> Triple(None, it.first.val, peek_item(it.rest)),
               it |-> [it EXCEPT !.first = None]]
         ELSE IF Len(it.rest) = 0 THEN [some |-> FALSE, out |-> NoTriple, it |-> it]
              ELSE [some |-> TRUE,
                    out |-> Triple(it.left_sep, it.rest[1].child, peek_item(Tail(it.rest))),
                    it |-> [it EXCEPT !.left_sep = peek_item(Tail(it.rest)),
                                      !.rest = Tail(@)]]
\* ChildrenWithSeparators::next: some is FALSE for None.
ChildrenWithSeparators_next(it) ==
    IF it.leaf THEN [some |-> FALSE, out |-> NoTriple, it |-> it]
    ELSE IF it.first.some
         THEN [some |-> TRUE,
               out |-> Triple(None, it.first.val, peek_item(it.rest)),
               it |-> [it EXCEPT !.first = None, !.left_sep = peek_item(it.rest)]]
         ELSE IF Len(it.rest) = 0 THEN [some |-> FALSE, out |-> NoTriple, it |-> it]
              ELSE [some |-> TRUE,
                    out |-> Triple(it.left_sep, it.rest[1].child, peek_item(Tail(it.rest))),
                    it |-> [it EXCEPT !.left_sep = peek_item(Tail(it.rest)),
                                      !.rest = Tail(@)]]

(* ------------------------------ SIOChksum ------------------------------ *)
\* x | y on u64.
bor(x, y) == x \cup y
\* x - y on u64, from bit i on with the borrow b and the bits below i of the
\* difference in low: word is the difference modulo 2^64 and overflow tells
\* that a borrow leaves the highest bit (x < y).
RECURSIVE u64_sub_from(_, _, _, _, _)
u64_sub_from(x, y, i, b, low) ==
    IF i = u64_BITS THEN [word |-> low, overflow |-> b]
    ELSE u64_sub_from(x, y, i + 1,
                      IF (i \in x) = (i \in y) THEN b ELSE i \in y,
                      IF ((i \in x) # (i \in y)) # b THEN low \cup {i} ELSE low)
u64_sub(x, y) == u64_sub_from(x, y, 0, FALSE, {})

\* SIOChksum: zc_word[i] is c[i + 1].
SIOChksum_new == <<{}, {}, {}, {}>>
set_checksum(c, w0, w1, w2, w3) == <<w0, w1, w2, w3>>
\* SIOChksum::is_zero: | binds tighter than ==, so zc_word[0] is compared with
\* 0 | zc_word[1] | zc_word[2] | zc_word[3].
is_zero(c) == c[1] = bor(bor(bor({}, c[2]), c[3]), c[4])
\* PartialEq::eq for SIOChksum.  The four differences are all computed, | not
\* being lazy; a build with overflow checks panics at the first that
\* overflows, a build without them wraps.
eq(self, other, checks) ==
    [panicked |-> checks /\ \E i \in 1..4 : u64_sub(self[i], other[i]).overflow,
     ret |-> \E i \in 1..4 : u64_sub(self[i], other[i]).word = {}]

(* --------------------------- specification ---------------------------- *)
\* tree: the B-Tree of the RangeMap.  last: the call that produced it (its
\* arguments and the tree before it), "idle" once the caller has moved on.
\* iter: the Gaps iterator a caller holds on the map (it borrows the map: no
\* mutation while it lives), with the ranges it has yielded so far.
VARIABLES tree, last, iter
\* bmap: a BTreeMap over integer keys.  shadow: what the calls made on it bound
\* each key to, None for a key never bound or removed since.  bdid: what the
\* last call on it did.
VARIABLES bmap, shadow, bdid
\* rb: two RBTrees a and b over integers.  rbit: the Difference, Intersection
\* or Union a caller holds on them (it borrows both: no mutation while it
\* lives), with the values it has yielded and whether it has returned None.
\* rbdid: what the last call on a tree was, whether it reported an element
\* (insert: returned true), whether the element was in the tree before, and
\* the len before.
VARIABLES rb, rbit, rbdid
\* probe: the arguments of a function that is called on its own, and what it
\* returned once it has been called.  For binary_search: a sorted slice of
\* disjoint ranges, an element and the connected flag.
VARIABLES probe
\* slab: the nodes of bmap as the slab holds them, kept by the calls on the
\* extended interface: the ids allocated, the id of the root and the ids of
\* the leaves from left to right.
VARIABLES slab
vars == <<tree, last, iter, bmap, shadow, bdid, rb, rbit, rbdid, probe, slab>>
\* What the calls on the RangeMap leave alone, the calls on the BTreeMap, the
\* calls on the RBTrees and the call of binary_search.
NotRangeMap == <<bmap, shadow, bdid, rb, rbit, rbdid, probe, slab>>
NotBTreeMap == <<tree, last, iter, rb, rbit, rbdid, probe, slab>>
NotRBTree == <<tree, last, iter, bmap, shadow, bdid, probe, slab>>
NotSearch == <<tree, last, iter, bmap, shadow, bdid, rb, rbit, rbdid, slab>>

\* The ranges of std::ops: a..b, a..=b, a.., ..b, ..=b and the full range.
StartInputs == {Unbounded} \cup {Included(x) : x \in 0..MaxKey}
EndInputs == {Unbounded} \cup {Included(x) : x \in 0..MaxKey}
              \cup {Excluded(x) : x \in 0..MaxKey}
\* An empty range makes every call return at once: two stand for all, one
\* half-open and one with its bounds reversed.
EmptyInputs == {AnyRange(Included(0), Excluded(0)), AnyRange(Included(MaxKey), Included(0))}
RangeInputs == {r \in {AnyRange(s, e) : s \in StartInputs, e \in EndInputs} : ~is_empty(r)}
               \cup EmptyInputs
\* Callbacks: f(None) is None or Some(1); f(Some(v)) is None, Some(1), Some(v)
\* or Some of the other value.
Callbacks == [none : {NoVal, 1}, kind : {"const"}, to : {NoVal, 1}]
             \cup [none : {NoVal, 1}, kind : {"keep", "other"}, to : {NoVal}]
NoCallback == [none |-> NoVal, kind |-> "keep", to |-> NoVal]

Idle == [op |-> "idle", key |-> NoRange, value |-> NoVal, f |-> NoCallback,
         pre |-> EmptyTree]
Call(op, key, value, f) == [op |-> op, key |-> key, value |-> value, f |-> f,
                            pre |-> tree]
NoIter == [active |-> FALSE, g |-> gaps(EmptyTree), out |-> << >>, ended |-> FALSE]

\* The keys given to the BTreeMap.
BKeys == 0..TreeMaxKey
\* No iterator over the RBTrees is held; no call on tree a is recorded.
NoSetIter ==
    [active |-> FALSE, it |-> set_iter("none", rb_new, rb_new), out |-> << >>, ended |-> FALSE,
     after |-> FALSE]
NoCall == [op |-> "none", ret |-> FALSE, had |-> FALSE, delta |-> 0]
\* binary_search has not been called.
NoProbe == [items |-> << >>, e |-> 0, connected |-> FALSE, called |-> FALSE, res |-> 0]
\* Every collection starts empty.
InitCollections ==
    /\ tree = EmptyTree /\ last = Idle /\ iter = NoIter
    /\ bmap = btree_new /\ shadow = [k \in BKeys |-> NoVal] /\ bdid = "new"
    /\ rb = [a |-> rb_new, b |-> rb_new] /\ rbit = NoSetIter /\ rbdid = NoCall
    /\ slab = slab_new
Init == InitCollections /\ probe = NoProbe

\* r is the outcome of the operation: a panic has no successor state.
Returns(r) == r.ok /\ tree' = r.tree

Insert(key, value) ==
    /\ last.op = "idle" /\ ~iter.active
    /\ Returns(insert(tree, key, value))
    /\ last' = Call("insert", key, value, NoCallback)
    /\ UNCHANGED <<iter, NotRangeMap>>

Update(key, f) ==
    /\ last.op = "idle" /\ ~iter.active
    /\ Returns(update(tree, key, f))
    /\ last' = Call("update", key, NoVal, f)
    /\ UNCHANGED <<iter, NotRangeMap>>

Remove(key) ==
    /\ last.op = "idle" /\ ~iter.active
    /\ Returns(remove(tree, key))
    /\ last' = Call("remove", key, NoVal, NoCallback)
    /\ UNCHANGED <<iter, NotRangeMap>>

\* The caller goes on: the record of the call is dropped.
Return ==
    /\ last.op # "idle"
    /\ last' = Idle
    /\ UNCHANGED <<tree, iter, NotRangeMap>>

\* let it = map.gaps()
Gaps ==
    /\ last.op = "idle" /\ ~iter.active
    /\ iter' = [active |-> TRUE, g |-> gaps(tree), out |-> << >>, ended |-> FALSE]
    /\ UNCHANGED <<tree, last, NotRangeMap>>

\* n is what it.next() gives.
Yielded(n) ==
    iter' = [active |-> TRUE, g |-> n.g,
             out |-> IF n.some THEN Append(iter.out, n.out) ELSE iter.out,
             ended |-> ~n.some]
\* it.next()
GapsNext ==
    /\ iter.active
    /\ Yielded(gaps_next(tree, iter.g))
    /\ UNCHANGED <<tree, last, NotRangeMap>>

\* The iterator is dropped.
GapsDrop ==
    /\ iter.active
    /\ iter' = NoIter
    /\ UNCHANGED <<tree, last, NotRangeMap>>

Next ==
    \/ \E key \in RangeInputs, value \in Values : Insert(key, value)
    \/ \E key \in RangeInputs, f \in Callbacks : Update(key, f)
    \/ \E key \in RangeInputs : Remove(key)
    \/ Return
    \/ Gaps
    \/ GapsNext
    \/ GapsDrop

Spec == Init /\ [][Next]_vars

\* A second specification grows the tree beyond one node: the keys
\* 0..TreeMaxKey are bound and unbound one at a time, neighbours to different
\* values, so that each bound key is an item of its own.
TreeKeys == 0..TreeMaxKey
Single(k) == AnyRange(Included(k), Included(k))
ValueOf(k) == (k % 2) + 1
InsertKey(k) == Insert(Single(k), ValueOf(k))
RemoveKey(k) == Remove(Single(k))
NextTree ==
    \/ \E k \in TreeKeys : InsertKey(k)
    \/ \E k \in TreeKeys : RemoveKey(k)
    \/ Return
SpecTree == Init /\ [][NextTree]_vars

\* A specification of the BTreeMap: the keys 0..TreeMaxKey are inserted and
\* removed through the map and through the addresses of the extended
\* interface.  The tree does not look at the values: two keys, which the
\* splits leave in a leaf or make a separator, are bound to either value,
\* the others to one value each.
RebindKeys == {0, 3}
ValuesFor(k) == IF k \in RebindKeys THEN Values ELSE {(k % 2) + 1}
BReturns(r) == r.ok /\ bmap' = r.map

\* map.insert(k, v)
BInsert(k, v) ==
    /\ bmap' = btree_insert(bmap, k, v)
    /\ shadow' = [shadow EXCEPT ![k] = v]
    /\ bdid' = IF shadow[k] = NoVal THEN "bound" ELSE "rebound"
    /\ UNCHANGED NotBTreeMap

\* map.remove(k)
BRemove(k) ==
    /\ BReturns(btree_remove(bmap, k))
    /\ shadow' = [shadow EXCEPT ![k] = NoVal]
    /\ bdid' = IF shadow[k] = NoVal THEN "absent" ELSE "unbound"
    /\ UNCHANGED NotBTreeMap

\* map.insert_at(addr, Item::new(k, v)) by a caller that respects the order
\* of the keys: k lies between the keys before and at addr.
BInsertAt(addr, k, v) ==
    /\ IF has_item(bmap.tree, addr - 1) THEN item(bmap.tree, addr - 1).key < k ELSE TRUE
    /\ IF has_item(bmap.tree, addr) THEN k < item(bmap.tree, addr).key ELSE TRUE
    /\ bmap' = btree_insert_at(bmap, addr, Item(k, v))
    /\ shadow' = [shadow EXCEPT ![k] = v]
    /\ bdid' = "bound"
    /\ UNCHANGED NotBTreeMap

\* map.remove_at(addr) at the address of an item.
BRemoveAt(addr) ==
    /\ BReturns(btree_remove_at(bmap, addr))
    /\ shadow' = [shadow EXCEPT ![item(bmap.tree, addr).key] = NoVal]
    /\ bdid' = "unbound"
    /\ UNCHANGED NotBTreeMap

NextBTree ==
    \/ \E k \in BKeys : \E v \in ValuesFor(k) : BInsert(k, v)
    \/ \E k \in BKeys : BRemove(k)
    \/ \E addr \in 1..(ItemCount(bmap.tree) + 1), k \in BKeys : \E v \in ValuesFor(k) :
        BInsertAt(addr, k, v)
    \/ \E addr \in 1..ItemCount(bmap.tree) : BRemoveAt(addr)
SpecBTree == Init /\ [][NextBTree]_vars

\* Another specification is a caller that only updates: update alone binds,
\* rebinds and unbinds, so it reaches every map.
NextUpdate ==
    \/ \E key \in RangeInputs, f \in Callbacks : Update(key, f)
    \/ Return
SpecUpdate == Init /\ [][NextUpdate]_vars

\* Keys at which the bindings are observed: the input keys and one key on
\* each side of them.
Keys == (0 - 1)..(MaxKey + 1)
TreeObsKeys == (0 - 1)..(TreeMaxKey + 1)
\* Every key of the domain, its two ends included.
Domain == NegInf..PosInf

\* A specification of the RBTree: the values 0..RBMax are inserted into two
\* trees; tree a is also taken from, popped and cleared; the difference, the
\* intersection and the union of a with b are iterated to their end.
RBValues == 0..RBMax
RBCall(op, t, r, had) ==
    [op |-> op, ret |-> r, had |-> had, delta |-> rb_len(t) - rb_len(rb.a)]

\* a.insert(v)
RBInsert(v) ==
    /\ ~rbit.active
    /\ rb' = [rb EXCEPT !.a = rb_insert(rb.a, v).tree]
    /\ rbdid' = RBCall("insert", rb_insert(rb.a, v).tree, rb_insert(rb.a, v).ret, v \in rb.a.root)
    /\ UNCHANGED <<rbit, NotRBTree>>

\* b.insert(v)
RBInsertOther(v) ==
    /\ ~rbit.active
    /\ rb' = [rb EXCEPT !.b = rb_insert(rb.b, v).tree]
    /\ rbdid' = NoCall
    /\ UNCHANGED <<rbit, NotRBTree>>

\* a.take(&v) when the result is kept, a.remove(&v) when it is tested.
RBTake(op, v) ==
    /\ ~rbit.active
    /\ rb' = [rb EXCEPT !.a = rb_take(rb.a, v).tree]
    /\ rbdid' = RBCall(op, rb_take(rb.a, v).tree, rb_take(rb.a, v).ret.some, v \in rb.a.root)
    /\ UNCHANGED <<rbit, NotRBTree>>

\* a.pop() and a.pop_back()
RBPop(back) ==
    /\ ~rbit.active
    /\ rb' = [rb EXCEPT !.a = rb_pop(rb.a, back).tree]
    /\ rbdid' = RBCall(IF back THEN "pop_back" ELSE "pop", rb_pop(rb.a, back).tree,
                       rb_pop(rb.a, back).ret.some, rb.a.root # {})
    /\ UNCHANGED <<rbit, NotRBTree>>

\* a.clear()
RBClear ==
    /\ ~rbit.active
    /\ rb' = [rb EXCEPT !.a = rb_clear(rb.a)]
    /\ rbdid' = [NoCall EXCEPT !.op = "clear"]
    /\ UNCHANGED <<rbit, NotRBTree>>

\* a.is_disjoint(&b), a.is_subset(&b) or a.is_superset(&b)
SetTests == {"is_disjoint", "is_subset", "is_superset"}
RBTest(op) ==
    /\ ~rbit.active
    /\ rbdid' = [NoCall EXCEPT !.op = op,
                               !.ret = IF op = "is_disjoint" THEN is_disjoint(rb.a, rb.b)
                                       ELSE IF op = "is_subset" THEN is_subset(rb.a, rb.b)
                                       ELSE is_superset(rb.a, rb.b)]
    /\ UNCHANGED <<rb, rbit, NotRBTree>>

\* let it = a.difference(&b), a.symmetric_difference(&b), a.intersection(&b)
\* or a.union(&b)
SetKinds == {"difference", "symmetric_difference", "intersection", "union"}
RBSetIter(kind) ==
    /\ ~rbit.active
    /\ rbit' = [active |-> TRUE, it |-> set_iter(kind, rb.a, rb.b), out |-> << >>, ended |-> FALSE,
                after |-> FALSE]
    /\ rbdid' = NoCall
    /\ UNCHANGED <<rb, NotRBTree>>

\* r is what it.next() gave; after tells that an earlier next() had given None.
SetYielded(r) ==
    rbit' = [rbit EXCEPT !.it = r.it,
                         !.after = rbit.ended \/ rbit.after,
                         !.out = IF r.res.some THEN Append(rbit.out, r.res.val) ELSE rbit.out,
                         !.ended = ~r.res.some]
\* it.next()
RBSetNext ==
    /\ rbit.active
    /\ SetYielded(set_next(rbit.it))
    /\ UNCHANGED <<rb, rbdid, NotRBTree>>

\* drop(it)
RBSetDrop ==
    /\ rbit.active
    /\ rbit' = NoSetIter
    /\ UNCHANGED <<rb, rbdid, NotRBTree>>

NextRB ==
    \/ \E v \in RBValues : RBInsert(v)
    \/ \E v \in RBValues : RBInsertOther(v)
    \/ \E v \in RBValues, op \in {"take", "remove"} : RBTake(op, v)
    \/ \E back \in BOOLEAN : RBPop(back)
    \/ RBClear
    \/ \E op \in SetTests : RBTest(op)
    \/ \E kind \in SetKinds : RBSetIter(kind)
    \/ RBSetNext
    \/ RBSetDrop
SpecRB == Init /\ [][NextRB]_vars

\* A specification of binary_search alone: it is called once on a slice of at
\* most MaxItems pairwise disjoint ranges over 0..SearchMaxKey sorted
\* ascending, the first of which may have no start and the last no end, with
\* a key from one below to one above them and either flag.
MaxItems == 5
SearchMaxKey == 5
Stored(a, b) == [key |-> AnyRange(Included(a), Included(b)), value |-> 1]
RECURSIVE Slices(_, _)
Slices(n, lo) ==
    {<< >>} \cup
    IF n = 0 THEN {}
    ELSE UNION {{<<Stored(p[1], p[2])>> \o s : s \in Slices(n - 1, p[2] + 1)} :
                p \in {q \in (lo..SearchMaxKey) \X (lo..SearchMaxKey) : q[1] <= q[2]}}
OpenEnds(s, noStart, noEnd) ==
    [i \in 1..Len(s) |->
        [s[i] EXCEPT !.key.start = IF noStart /\ i = 1 THEN Unbounded ELSE @,
                     !.key.end = IF noEnd /\ i = Len(s) THEN Unbounded ELSE @]]
SearchInputs ==
    {OpenEnds(s, noStart, noEnd) : s \in Slices(MaxItems, 0), noStart \in BOOLEAN, noEnd \in BOOLEAN}
InitSearch ==
    /\ InitCollections
    /\ probe \in [items : SearchInputs, e : (0 - 1)..(SearchMaxKey + 1),
                   connected : BOOLEAN, called : {FALSE}, res : {0}]
\* binary_search(items, &e, connected)
Search ==
    /\ ~probe.called
    /\ probe' = [probe EXCEPT !.called = TRUE,
                              !.res = binary_search(probe.items, KeyElem(probe.e), probe.connected)]
    /\ UNCHANGED NotSearch
NextSearch == Search
SpecSearch == InitSearch /\ [][NextSearch]_vars

\* A specification of Offset alone: two offsets, each Offset::before() or
\* Offset::from(i), are compared both ways, and either is decremented.
Offsets == {Offset_before} \cup {Offset_from(i) : i \in usize}
InitOffset ==
    /\ InitCollections
    /\ probe \in [a : Offsets, b : Offsets, called : {FALSE},
                  cmp : {"Equal"}, partial_cmp : {None}, value : {None}]
\* a.cmp(&b), a.partial_cmp(&b), a.value()
OffsetCmp ==
    /\ ~probe.called
    /\ probe' = [probe EXCEPT !.called = TRUE,
                              !.cmp = Offset_cmp(probe.a, probe.b),
                              !.partial_cmp = Offset_partial_cmp(probe.a, probe.b),
                              !.value = Offset_value(probe.a)]
    /\ UNCHANGED NotSearch
\* a.decr()
OffsetDecr ==
    /\ ~probe.called
    /\ probe' = [probe EXCEPT !.a = Offset_decr(probe.a)]
    /\ UNCHANGED NotSearch
NextOffset == OffsetCmp \/ OffsetDecr
SpecOffset == InitOffset /\ [][NextOffset]_vars

\* A specification of Dva alone: the four setters are called in any order and
\* any number of times on Dva::new().  The values given have their bits among
\* the lowest, the highest and a middle bit of the field, and one bit outside
\* of it, which the assertions refuse.
AsizeInputs == SUBSET {8, 9, 22, 32, 33}
GridInputs == SUBSET {0, 7, 8}
VdevInputs == SUBSET {0, 5, 23, 24}
OffsetInputs == SUBSET {8, 9, 12, 63}
DvaFields == {"asize", "grid", "vdev", "offset"}
NoneGiven == [f \in DvaFields |-> {}]
InitDva ==
    /\ InitCollections
    /\ probe = [dva |-> Dva_new, set |-> {}, given |-> NoneGiven]
\* r is what the setter of field gave when called with val: a failed assertion
\* has no successor state.
DvaSet(field, val, r) ==
    /\ r.ok
    /\ probe' = [dva |-> r.dva, set |-> probe.set \cup {field},
                 given |-> [probe.given EXCEPT ![field] = val]]
    /\ UNCHANGED NotSearch
SetAsize(size) == DvaSet("asize", size, set_asize(probe.dva, size))
SetGrid(grid) == DvaSet("grid", grid, set_grid(probe.dva, grid))
SetVdev(x) == DvaSet("vdev", x, set_vdev(probe.dva, x))
SetOffset(offset) == DvaSet("offset", offset, set_offset(probe.dva, offset))
NextDva ==
    \/ \E size \in AsizeInputs : SetAsize(size)
    \/ \E grid \in GridInputs : SetGrid(grid)
    \/ \E x \in VdevInputs : SetVdev(x)
    \/ \E offset \in OffsetInputs : SetOffset(offset)
SpecDva == InitDva /\ [][NextDva]_vars

\* A specification of Dva with set_gang as well: each call keeps the Dva it
\* was made on in pre and the field it set in did.
GangInputs == SUBSET {0, 9, 63}
InitDvaFrame ==
    /\ InitCollections
    /\ probe = [dva |-> Dva_new, pre |-> Dva_new, did |-> "none"]
\* r is what the setter of field gave: a failed assertion has no successor
\* state.
DvaFrameSet(field, r) ==
    /\ r.ok
    /\ probe' = [dva |-> r.dva, pre |-> probe.dva, did |-> field]
    /\ UNCHANGED NotSearch
FrameSetAsize(size) == DvaFrameSet("asize", set_asize(probe.dva, size))
FrameSetGrid(grid) == DvaFrameSet("grid", set_grid(probe.dva, grid))
FrameSetVdev(x) == DvaFrameSet("vdev", set_vdev(probe.dva, x))
FrameSetOffset(offset) == DvaFrameSet("offset", set_offset(probe.dva, offset))
FrameSetGang(x) == DvaFrameSet("gang", set_gang(probe.dva, x))
NextDvaFrame ==
    \/ \E size \in AsizeInputs : FrameSetAsize(size)
    \/ \E grid \in GridInputs : FrameSetGrid(grid)
    \/ \E x \in VdevInputs : FrameSetVdev(x)
    \/ \E offset \in OffsetInputs : FrameSetOffset(offset)
    \/ \E x \in GangInputs : FrameSetGang(x)
SpecDvaFrame == InitDvaFrame /\ [][NextDvaFrame]_vars

\* A specification of binary_search over a domain that is partially ordered:
\* the slice is one of the above with at most one of its ranges replaced by a
\* range of NaN bounds, and the element is a key or NaN.
WithNan(s, i) == [j \in 1..Len(s) |-> IF j = i THEN Stored(NaN, NaN) ELSE s[j]]
PartialInputs == {WithNan(s, i) : s \in Slices(MaxItems, 0), i \in 0..MaxItems}
InitSearchPartial ==
    /\ InitCollections
    /\ probe \in [items : PartialInputs, e : (0 - 1)..(SearchMaxKey + 1) \cup {NaN},
                  connected : BOOLEAN, called : {FALSE}, res : {0}]
SpecSearchPartial == InitSearchPartial /\ [][NextSearch]_vars

\* A specification of the three mutations of the RangeMap, without iterators.
NextWalk ==
    \/ \E key \in RangeInputs, value \in Values : Insert(key, value)
    \/ \E key \in RangeInputs, f \in Callbacks : Update(key, f)
    \/ \E key \in RangeInputs : Remove(key)
    \/ Return
SpecWalk == Init /\ [][NextWalk]_vars
\* The same caller, looked at for the items its calls leave in the map.
SpecCanonical == Init /\ [][NextWalk]_vars

\* A specification of the extended interface of the BTreeMap alone: items
\* are inserted and removed at addresses by a caller that respects the order
\* of the keys, and probe holds the last insert_at: the tree before, the
\* address and the item given and the Address returned; after a remove_at,
\* the tree before, the address given and the item removed.
NoInsertion == [called |-> FALSE, pre |-> EmptyTree, addr |-> NoAddr, item |-> NoItem,
                ret |-> Address(0, 0)]
NotExt == <<tree, last, iter, shadow, bdid, rb, rbit, rbdid>>
InitExt == InitCollections /\ probe = NoInsertion
\* map.insert_at(addr, Item::new(k, v))
ExtInsertAt(addr, k, v) ==
    /\ IF has_item(bmap.tree, addr - 1) THEN item(bmap.tree, addr - 1).key < k ELSE TRUE
    /\ IF has_item(bmap.tree, addr) THEN k < item(bmap.tree, addr).key ELSE TRUE
    /\ bmap' = btree_insert_at(bmap, addr, Item(k, v))
    /\ probe' = [called |-> TRUE, pre |-> bmap.tree, addr |-> addr, item |-> Item(k, v),
                 ret |-> insert_at_address(bmap.tree, addr)]
    /\ slab' = slab_insert_at(slab, bmap.tree, addr)
    /\ UNCHANGED NotExt
\* map.remove_at(addr) at the address of an item.
ExtRemoveAt(addr) ==
    /\ BReturns(btree_remove_at(bmap, addr))
    /\ probe' = [NoInsertion EXCEPT !.pre = bmap.tree, !.addr = addr,
                                    !.item = item(bmap.tree, addr)]
    /\ slab' = slab_remove_at(slab, remove_at(bmap.tree, addr).tree)
    /\ UNCHANGED NotExt
NextExt ==
    \/ \E addr \in 1..(ItemCount(bmap.tree) + 1), k \in BKeys : ExtInsertAt(addr, k, ValueOf(k))
    \/ \E addr \in 1..ItemCount(bmap.tree) : ExtRemoveAt(addr)
SpecExt == InitExt /\ [][NextExt]_vars

\* A specification of the child iterators of a node alone: the node is a
\* leaf or an internal node of at most MaxBranches branches, with separators
\* of increasing keys and child ids in either order; its children() and its
\* children_with_separators() are advanced in any interleaving, also after
\* they have ended.
MaxBranches == 3
RECURSIVE IncreasingSeqs(_, _)
IncreasingSeqs(n, lo) ==
    IF n = 0 THEN {<< >>}
    ELSE UNION {{<<k>> \o s : s \in IncreasingSeqs(n - 1, k + 1)} : k \in lo..(MaxBranches + 1)}
ChildIds(n, up) == [i \in 0..n |-> IF up THEN 10 + i ELSE 10 + n - i]
NodeInputs ==
    {LeafNode} \cup
    UNION {{InternalNode(ChildIds(Len(s), up)[0],
                         [i \in 1..Len(s) |-> Branch(s[i], ChildIds(Len(s), up)[i])]) :
                s \in IncreasingSeqs(n, 1), up \in BOOLEAN} : n \in 0..MaxBranches}
InitChildren ==
    /\ InitCollections
    /\ probe \in {[node |-> node, children |-> children(node), ids |-> << >>, ended |-> FALSE,
                   separated |-> children_with_separators(node), triples |-> << >>,
                   all |-> FALSE] : node \in NodeInputs}
\* children.next()
ChildrenNext ==
    /\ probe' = [probe EXCEPT
            !.children = Children_next(probe.children).it,
            !.ids = IF Children_next(probe.children).out.some
                    THEN Append(@, Children_next(probe.children).out.val) ELSE @,
            !.ended = ~Children_next(probe.children).out.some]
    /\ UNCHANGED NotSearch
\* children_with_separators.next()
SeparatorsNext ==
    /\ probe' = [probe EXCEPT
            !.separated = ChildrenWithSeparators_next(probe.separated).it,
            !.triples = IF ChildrenWithSeparators_next(probe.separated).some
                        THEN Append(@, ChildrenWithSeparators_next(probe.separated).out) ELSE @,
            !.all = ~ChildrenWithSeparators_next(probe.separated).some]
    /\ UNCHANGED NotSearch
NextChildren == ChildrenNext \/ SeparatorsNext
SpecChildren == InitChildren /\ [][NextChildren]_vars

\* A specification of SIOChksum alone: two checksums a and b start as
\* SIOChksum::new(); set_checksum, is_zero and == are called in any order, in
\* a build with or without overflow checks.  The words given are 0, 1 and
\* u64::MAX.  A panic ends the behaviour.
ChksumWords == {{}, {0}, 0..(u64_BITS - 1)}
NoChksumCall == [op |-> "new", ret |-> FALSE, panicked |-> FALSE]
InitChksum ==
    /\ InitCollections
    /\ probe = [a |-> SIOChksum_new, b |-> SIOChksum_new, did |-> NoChksumCall]
\* a.set_checksum(w0, w1, w2, w3), or b's when other holds
SetChecksum(other, w0, w1, w2, w3) ==
    /\ ~probe.did.panicked
    /\ probe' = IF other
                THEN [probe EXCEPT !.b = set_checksum(probe.b, w0, w1, w2, w3),
                                   !.did = [NoChksumCall EXCEPT !.op = "set_checksum"]]
                ELSE [probe EXCEPT !.a = set_checksum(probe.a, w0, w1, w2, w3),
                                   !.did = [NoChksumCall EXCEPT !.op = "set_checksum"]]
    /\ UNCHANGED NotSearch
\* a.is_zero()
IsZero ==
    /\ ~probe.did.panicked
    /\ probe' = [probe EXCEPT !.did = [op |-> "is_zero", ret |-> is_zero(probe.a),
                                       panicked |-> FALSE]]
    /\ UNCHANGED NotSearch
\* a == b
ChksumEq(checks) ==
    /\ ~probe.did.panicked
    /\ probe' = [probe EXCEPT !.did = [op |-> "eq",
                                       ret |-> ~eq(probe.a, probe.b, checks).panicked
                                               /\ eq(probe.a, probe.b, checks).ret,
                                       panicked |-> eq(probe.a, probe.b, checks).panicked]]
    /\ UNCHANGED NotSearch
NextChksum ==
    \/ \E other \in BOOLEAN, w0 \in ChksumWords, w1 \in ChksumWords,
          w2 \in ChksumWords, w3 \in ChksumWords : SetChecksum(other, w0, w1, w2, w3)
    \/ IsZero
    \/ \E checks \in BOOLEAN : ChksumEq(checks)
SpecChksum == InitChksum /\ [][NextChksum]_vars

TypeOK ==
    /\ tree.seps \subseteq 1..ItemCount(tree)
    /\ Cardinality(tree.seps) < M
    /\ \A i \in 1..ItemCount(tree) : tree.items[i].value \in Values
    /\ last.op \in {"idle", "insert", "update", "remove"}
    /\ iter.active \in BOOLEAN

(* ------------------------------- claims ------------------------------- *)
\* The stored items whose range contains key x.
Holding(t, x) == {i \in 1..ItemCount(t) : contains(t.items[i].key, x)}
\* The call recorded in last was made with a non-empty range.
Called(op) == last.op = op /\ ~is_empty(last.key)

\* C1: after any sequence of insert, update and remove from the empty map, no
\* two items consecutive in iteration order are connected and of equal value.
C1_Normalized ==
    \A i \in 1..(ItemCount(tree) - 1) :
        ~(connected_to(tree.items[i].key, tree.items[i + 1].key)
          /\ tree.items[i].value = tree.items[i + 1].value)
\* An insert joined the ranges on both sides of its range into one item.
C1_Witness ==
    /\ Called("insert")
    /\ ItemCount(tree) < ItemCount(last.pre)
    /\ \E i \in 1..ItemCount(tree) :
        /\ tree.items[i].value = last.value
        /\ Lo(tree.items[i].key) < Lo(last.key)
        /\ Hi(tree.items[i].key) > Hi(last.key)

\* C2: after any sequence of insert, update and remove, every stored range is
\* non-empty, the stored ranges are pairwise disjoint, and the iteration
\* order is strictly increasing in the start of the ranges.
C2_Disjoint ==
    /\ \A i \in 1..ItemCount(tree) : ~is_empty(tree.items[i].key)
    /\ \A j \in 2..ItemCount(tree) : \A i \in 1..(j - 1) :
        ~intersects(tree.items[i].key, tree.items[j].key)
    /\ \A i \in 1..(ItemCount(tree) - 1) :
        Lo(tree.items[i].key) < Lo(tree.items[i + 1].key)
\* A call cut a stored range in two: three items or more afterwards.
C2_Witness ==
    /\ last.op \in {"insert", "update", "remove"}
    /\ ItemCount(tree) >= 3
    /\ ItemCount(tree) > ItemCount(last.pre)

\* C3: after insert(r, v) with r non-empty on a reachable map, get(k) is
\* Some(v) for every key k of r, whatever was bound in r before.
C3_InsertBinds ==
    Called("insert") =>
        \A k \in Keys : contains(last.key, k) => get(tree, k) = last.value
\* An insert overrode a binding to another value.
C3_Witness ==
    /\ Called("insert")
    /\ \E k \in Keys :
        /\ contains(last.key, k)
        /\ get(last.pre, k) \notin {NoVal, last.value}
        /\ get(tree, k) = last.value

\* C4: after update(r, f) with r non-empty, the binding of every key k of r
\* is f applied to its binding before the call.
C4_UpdateApplies ==
    Called("update") =>
        \A k \in Keys : contains(last.key, k) =>
            get(tree, k) = call(last.f, get(last.pre, k))
\* An update rebound a bound key and filled an unbound one.
C4_Witness ==
    /\ Called("update")
    /\ \E k \in Keys :
        /\ contains(last.key, k)
        /\ get(last.pre, k) # NoVal
        /\ get(tree, k) \notin {NoVal, get(last.pre, k)}
    /\ \E k \in Keys :
        /\ contains(last.key, k)
        /\ get(last.pre, k) = NoVal
        /\ get(tree, k) # NoVal

\* C5: insert(r, _), update(r, _) and remove(r) leave the binding of every
\* key outside r as it was before the call.
C5_Frame ==
    last.op \in {"insert", "update", "remove"} =>
        \A k \in Keys : ~contains(last.key, k) => get(tree, k) = get(last.pre, k)
\* A call changed the binding of a part of a stored range, the rest of which
\* lies outside the range of the call and is still bound.
C5_Witness ==
    /\ last.op \in {"insert", "update", "remove"}
    /\ \E i \in 1..ItemCount(last.pre) : \E k, l \in Keys :
        /\ contains(last.pre.items[i].key, k) /\ contains(last.pre.items[i].key, l)
        /\ contains(last.key, k) /\ ~contains(last.key, l)
        /\ get(tree, k) # get(last.pre, k)
        /\ get(tree, l) # NoVal

\* C6: after remove(r) on a reachable map, get(k) is None for every key k of r.
C6_RemoveUnbinds ==
    last.op = "remove" =>
        \A k \in Keys : contains(last.key, k) => get(tree, k) = NoVal
\* A remove split a stored range: bound on both sides of r, unbound in r.
C6_Witness ==
    /\ last.op = "remove"
    /\ ItemCount(tree) > ItemCount(last.pre)
    /\ \E k \in Keys : contains(last.key, k) /\ get(last.pre, k) # NoVal

\* C7: get(k) is Some(v) exactly when a stored range contains k, v being the
\* value of that range, and None when no stored range contains k, in a tree
\* of one node and in a tree with an internal node alike.
C7_Get ==
    \A k \in TreeObsKeys :
        IF Holding(tree, k) = {} THEN get(tree, k) = NoVal
        ELSE \A i \in Holding(tree, k) : get(tree, k) = tree.items[i].value
\* The root is an internal node; a key is found in it, another in a leaf, and
\* a key next to a stored range is in none.
C7_Witness ==
    /\ \E s \in tree.seps : \E k \in TreeObsKeys : Holding(tree, k) = {s}
    /\ \E i \in 1..ItemCount(tree) : \E k \in TreeObsKeys :
        i \notin tree.seps /\ Holding(tree, k) = {i}
    /\ \E k \in TreeObsKeys :
        /\ Holding(tree, k) = {} /\ Holding(tree, k + 1) # {}
        /\ get(tree, k) = NoVal

\* The gaps an iterator yielded until next() gave None.
AllYielded == iter.active /\ iter.ended
\* The ranges of seq that contain key x.
Covering(seq, x) == {i \in 1..Len(seq) : contains(seq[i], x)}

\* C8: for every reachable map the ranges yielded by gaps() and the stored
\* ranges partition the domain: every key is in exactly one stored range or
\* exactly one gap, and no gap intersects a stored range.
C8_GapsPartition ==
    AllYielded =>
        /\ \A k \in Domain :
            Cardinality(Holding(tree, k)) + Cardinality(Covering(iter.out, k)) = 1
        /\ \A i \in 1..Len(iter.out) : \A j \in 1..ItemCount(tree) :
            ~intersects(iter.out[i], tree.items[j].key)
\* C9: gaps() on a map with no stored range yields the range unbounded on
\* both sides, once, and then ends.
C9_EmptyMapGap ==
    (iter.active /\ ItemCount(tree) = 0) =>
        \/ /\ iter.out = << >> /\ ~iter.ended
           /\ gaps_next(tree, iter.g).some
           /\ gaps_next(tree, iter.g).out = AnyRange(Unbounded, Unbounded)
        \/ /\ iter.out = <<AnyRange(Unbounded, Unbounded)>>
           /\ ~gaps_next(tree, iter.g).some
\* The iterator of an empty map has yielded and ended.
C9_Witness ==
    /\ AllYielded
    /\ ItemCount(tree) = 0
    /\ iter.out = <<AnyRange(Unbounded, Unbounded)>>

\* The callback |_| Some(v).
Always(v) == [none |-> v, kind |-> "const", to |-> v]
\* r, the outcome of the other operation on the map before the call, is the
\* map after the call, item for item.
SameItems(r) == r.ok /\ r.tree.items = tree.items
\* C10: for every reachable map, non-empty range r and value v, insert(r, v)
\* and update(r, |_| Some(v)) give the same sequence of stored items.
C10_InsertIsUpdate ==
    /\ Called("insert") => SameItems(update(last.pre, last.key, Always(last.value)))
    /\ (Called("update") /\ \E v \in Values : last.f = Always(v)) =>
        SameItems(insert(last.pre, last.key, last.f.to))
\* An insert that went through several stored ranges and merged some.
C10_Witness ==
    /\ Called("insert")
    /\ ItemCount(last.pre) >= 3
    /\ ItemCount(tree) < ItemCount(last.pre)

\* C11: insert(r, v) and update(r, f) with an empty range r leave the sequence
\* of stored items as it was, and update does not invoke f.
C11_EmptyNoOp ==
    (last.op \in {"insert", "update"} /\ is_empty(last.key)) =>
        /\ tree = last.pre
        /\ last.op = "update" => update_calls(last.pre, last.key, last.f) = << >>
\* An update with an empty range and a callback that fills gaps returned on a
\* map that holds ranges.
C11_Witness ==
    /\ last.op = "update" /\ is_empty(last.key)
    /\ last.f.none # NoVal
    /\ ItemCount(last.pre) > 0
    /\ tree = last.pre

\* The keys of the domain that get finds bound in the map.
BoundKeys(t) == {k \in Domain : get(t, k) # NoVal}
\* No call is being looked at and no iterator borrows the map.
AtRest == last.op = "idle" /\ ~iter.active
\* C12: after any sequence of insert, update and remove, range_count() is the
\* number of items iteration yields, len() is the number of keys k with
\* get(k) = Some, and is_empty() is true exactly when no key is bound.
C12_Len ==
    AtRest =>
        /\ range_count(tree) = Len(iter_items(tree))
        /\ len(tree) = Cardinality(BoundKeys(tree))
        /\ map_is_empty(tree) <=> BoundKeys(tree) = {}
\* The calls left two ranges or more, one of them of several keys.
C12_Witness ==
    /\ AtRest
    /\ range_count(tree) >= 2
    /\ len(tree) > range_count(tree)
    /\ len(tree) = Cardinality(BoundKeys(tree))

\* The invocations are each about a non-empty part of the range of the call
\* recorded in last, every key of which had the binding handed to f.
ArgsAreBindings(calls) ==
    \A i \in 1..Len(calls) :
        /\ ~is_empty(calls[i].part)
        /\ \A k \in Keys : contains(calls[i].part, k) =>
            /\ contains(last.key, k)
            /\ get(last.pre, k) = calls[i].arg
\* No invocation is f(Some(_)).
OnlyNone(calls) == \A i \in 1..Len(calls) : calls[i].arg = NoVal
\* The stored ranges of t that are connected to r without intersecting it.
Adjacent(t, r) == {i \in 1..ItemCount(t) : /\ connected_to(t.items[i].key, r)
                                            /\ ~intersects(t.items[i].key, r)}
\* The invocations calls made by the update recorded in last are as C13 says.
ArgsAsClaimed(calls) ==
    /\ ArgsAreBindings(calls)
    /\ (\A i \in 1..ItemCount(last.pre) : ~intersects(last.pre.items[i].key, last.key))
        => OnlyNone(calls)
\* C13: during update(r, f), f is invoked with None only for a non-empty part
\* of r in which no key was bound before the call and with Some(v) only for a
\* part of r whose keys were bound to v; an update of a range that intersects
\* no stored range never invokes f with Some.
C13_CallbackArgs ==
    Called("update") => ArgsAsClaimed(update_calls(last.pre, last.key, last.f))
\* An update of a range that lies between two stored ranges, adjacent to
\* both and intersecting none, invoked f once, with None, for the whole range.
C13_Witness ==
    /\ Called("update")
    /\ \A i \in 1..ItemCount(last.pre) : ~intersects(last.pre.items[i].key, last.key)
    /\ Cardinality(Adjacent(last.pre, last.key)) = 2
    /\ update_calls(last.pre, last.key, last.f) = <<Invocation(NoVal, last.key)>>

\* The keys of the items of a node, given as its sequence of items.
NodeKeys(items) == {items[i].key : i \in 1..Len(items)}
\* The items of a node are in strictly increasing order of key.
Increasing(items) == \A i \in 1..(Len(items) - 1) : items[i].key < items[i + 1].key
\* C14: after any sequence of inserts and removes of the BTreeMap, insert_at
\* and remove_at calls that respect the key order included, the in-order
\* traversal yields strictly increasing keys, the items of every node are
\* strictly ordered and each separator lies between the keys of its left and
\* of its right child.
C14_Order ==
    /\ Increasing(bmap.tree.items)
    /\ Increasing(branches(bmap.tree))
    /\ \A j \in 1..(Cardinality(bmap.tree.seps) + 1) : Increasing(leaf_items(bmap.tree, j))
    /\ \A i \in 1..Cardinality(bmap.tree.seps) :
        /\ \A k \in NodeKeys(leaf_items(bmap.tree, i)) : k < branches(bmap.tree)[i].key
        /\ \A k \in NodeKeys(leaf_items(bmap.tree, i + 1)) : branches(bmap.tree)[i].key < k
\* A key was put between two items of a leaf under an internal root.
C14_Witness ==
    /\ bdid = "bound"
    /\ bmap.tree.seps # {}
    /\ \E j \in 1..(Cardinality(bmap.tree.seps) + 1) : \E i \in 2..(Len(leaf_items(bmap.tree, j)) - 1) :
        /\ leaf_items(bmap.tree, j)[i].key - leaf_items(bmap.tree, j)[i - 1].key = 1
        /\ leaf_items(bmap.tree, j)[i + 1].key - leaf_items(bmap.tree, j)[i].key = 1
    /\ Increasing(bmap.tree.items)

\* The number of items of leaf j.
LeafSize(t, j) == LeafLast(t, j) - LeafFirst(t, j) + 1
\* C15: after every mutation of the BTreeMap every non-root node holds
\* between ceil(M/2) - 1 and M - 1 items if it is a leaf and between
\* ceil(M/2) and M children if it is internal: a leaf that underflows after
\* remove_at is back in range when the operation returns.
C15_Balance ==
    bmap.tree.seps # {} =>
        \A j \in 1..(Cardinality(bmap.tree.seps) + 1) :
            /\ LeafSize(bmap.tree, j) >= (M + 1) \div 2 - 1
            /\ LeafSize(bmap.tree, j) <= M - 1

\* Keys at which the BTreeMap is observed: its keys and one on each side.
BObsKeys == (0 - 1)..(TreeMaxKey + 1)
\* What the calls made so far bound key k to.
Bound(k) == IF k \in BKeys THEN shadow[k] ELSE NoVal
\* C16: after any sequence of insert and remove calls of the BTreeMap, get(k)
\* is Some(v) for v the value of the most recent insert(k, v) not followed by
\* remove(k) and None otherwise; get on a map with no root is None.
C16_Map ==
    /\ \A k \in BObsKeys : btree_get(bmap, k) = Bound(k)
    /\ ~bmap.root => \A k \in BObsKeys : btree_get(bmap, k) = NoVal
\* An insert replaced the value of a key that is a separator of the root,
\* and a key removed before is not found.
C16_Witness ==
    /\ bdid = "rebound"
    /\ \E s \in bmap.tree.seps :
        /\ bmap.tree.items[s].key \in RebindKeys
        /\ bmap.tree.items[s].value # (bmap.tree.items[s].key % 2) + 1
        /\ btree_get(bmap, bmap.tree.items[s].key) = bmap.tree.items[s].value
    /\ \E k \in BKeys : shadow[k] = NoVal /\ btree_get(bmap, k) = NoVal

\* C17: after any sequence of inserts and removes, BTreeMap::is_empty() is
\* true exactly when BTreeMap::len() is 0, len() being the number of items.
C17_EmptyIffLenZero ==
    /\ btree_is_empty(bmap) <=> len_of(bmap) = 0
    /\ len_of(bmap) = ItemCount(bmap.tree)
\* The last remaining item was removed.
C17_Witness ==
    /\ bdid = "unbound"
    /\ len_of(bmap) = 0
    /\ btree_is_empty(bmap)


\* What the iterator of each kind is to yield from self and other.
SetOf(kind, self, other) ==
    IF kind = "difference" THEN self.root \ other.root
    ELSE IF kind = "symmetric_difference"
    THEN (self.root \ other.root) \cup (other.root \ self.root)
    ELSE IF kind = "intersection" THEN self.root \cap other.root
    ELSE self.root \cup other.root
Ascending(q) == \A i \in 1..Len(q) - 1 : q[i] < q[i + 1]
\* C18: a.difference(&b), a.intersection(&b) and a.union(&b) yield, in
\* strictly ascending order and without duplicates, exactly the elements of a
\* minus b, of a intersect b and of a union b: what has been yielded so far is
\* ascending and of that set, and once next() has returned None it is all of it.
C18_SetOps ==
    rbit.active =>
        /\ Ascending(rbit.out)
        /\ \A i \in 1..Len(rbit.out) : rbit.out[i] \in SetOf(rbit.it.kind, rb.a, rb.b)
        /\ rbit.ended => rbit.out = ordered(SetOf(rbit.it.kind, rb.a, rb.b))
\* t1 = {0,1,2} and t2 = {2,3,4}: t1.difference(&t2) has yielded 0 and 1 and
\* then None.
C18_Witness ==
    /\ rbit.active /\ rbit.ended /\ rbit.it.kind = "difference"
    /\ rb.a.root = {0, 1, 2} /\ rb.b.root = {2, 3, 4}
    /\ rbit.out = <<0, 1>>

\* C19: insert(v) returns true and len() grows by one exactly when v was not
\* contained, and returns false with len() unchanged otherwise; take, remove,
\* pop and pop_back make len() one less exactly when they report an element;
\* after any sequence of these calls and clear, len() is the number of
\* contained elements and is_empty() holds iff that number is 0.
C19_Len ==
    /\ rbdid.op = "insert" =>
        /\ rbdid.ret <=> ~rbdid.had
        /\ rbdid.delta = IF rbdid.had THEN 0 ELSE 1
    /\ rbdid.op \in {"take", "remove", "pop", "pop_back"} =>
        /\ rbdid.ret <=> rbdid.had
        /\ rbdid.delta = IF rbdid.ret THEN 0 - 1 ELSE 0
    /\ rb_len(rb.a) = Cardinality(rb.a.root)
    /\ rb_len(rb.b) = Cardinality(rb.b.root)
    /\ rb_is_empty(rb.a) <=> rb.a.root = {}
\* An insert of a value already in a tree of several values returned false.
C19_Witness ==
    /\ rbdid.op = "insert" /\ ~rbdid.ret /\ rbdid.had
    /\ rb_len(rb.a) >= 2 /\ rb_len(rb.a) = Cardinality(rb.a.root)

\* The indices of the ranges of the slice below e, containing e or, when
\* asked for, adjacent to e.
NotAfter(items, e, connected) ==
    {i \in 1..Len(items) :
        \/ Hi(items[i].key) < e
        \/ contains(items[i].key, e)
        \/ connected /\ (Lo(items[i].key) = e + 1 \/ Hi(items[i].key) = e - 1)}
\* C20: on a sorted slice of pairwise disjoint ranges, binary_search(items, e,
\* false) is the greatest index whose range is below or contains e, None when
\* e is before items[0]; binary_search(items, e, true) is the greatest index
\* whose range is below, contains or is adjacent to e, None when e is before
\* and not adjacent to items[0].  (Indices count from 1 here, None is 0.)
C20_BinarySearch ==
    probe.called =>
        IF NotAfter(probe.items, probe.e, probe.connected) = {} THEN probe.res = 0
        ELSE /\ probe.res \in NotAfter(probe.items, probe.e, probe.connected)
             /\ \A i \in NotAfter(probe.items, probe.e, probe.connected) : i <= probe.res
\* The singletons 0, 2, 4 searched for 1 with connected set: the second.
C20_Witness ==
    /\ probe.called /\ probe.connected /\ probe.e = 1
    /\ probe.items = <<Stored(0, 0), Stored(2, 2), Stored(4, 4)>>
    /\ probe.res = 2

\* An offset that holds an index of a node.
Concrete(o) == o # Offset_before
NotGreater(a, b) == Offset_cmp(a, b) # "Greater"
\* C21: the ordering of Offset is a total order in which Offset::before() is
\* strictly less than every concrete index and equal only to itself, and
\* concrete indices compare as their values; partial_cmp agrees with cmp, and
\* value() is None exactly when is_before() holds.
C21_OffsetOrder ==
    probe.called =>
        /\ probe.partial_cmp = Some(probe.cmp)
        /\ (Offset_is_before(probe.a) /\ Concrete(probe.b)) => probe.cmp = "Less"
        /\ probe.cmp = "Equal" <=> probe.a = probe.b
        /\ (Concrete(probe.a) /\ Concrete(probe.b)) =>
            (probe.cmp = "Less" <=> probe.a < probe.b)
        /\ probe.cmp = "Less" <=> Offset_cmp(probe.b, probe.a) = "Greater"
        /\ \A c \in Offsets :
            (NotGreater(probe.a, probe.b) /\ NotGreater(probe.b, c)) => NotGreater(probe.a, c)
        /\ ~probe.value.some <=> Offset_is_before(probe.a)
\* Offset::before() has been compared with the offset of the greatest index.
C21_Witness ==
    /\ probe.called /\ probe.a = Offset_before /\ probe.b = Offset_from(usize_MAX - 1)
    /\ probe.cmp = "Less" /\ ~probe.value.some

\* C22: the accessors of Dva round-trip: once set_asize(s), set_grid(g),
\* set_vdev(d) and set_offset(o) have been called with values in range, in any
\* order, get_asize() = s, get_grid() = g, get_vdev() = d and get_offset() = o
\* (each getter gives what its setter was last given, whatever the other
\* setters did since).
C22_DvaRoundTrip ==
    /\ "asize" \in probe.set => get_asize(probe.dva) = probe.given.asize
    /\ "grid" \in probe.set => get_grid(probe.dva) = probe.given.grid
    /\ "vdev" \in probe.set => get_vdev(probe.dva) = probe.given.vdev
    /\ "offset" \in probe.set => get_offset(probe.dva) = probe.given.offset
\* All four fields are set: asize to 4 MiB + 4 GiB, its highest bit, grid to
\* 129, vdev to 2^23 + 32 and offset to 4096.
C22_Witness ==
    /\ probe.set = DvaFields
    /\ probe.given.asize = {22, 32} /\ probe.given.grid = {0, 7}
    /\ probe.given.vdev = {5, 23} /\ probe.given.offset = {12}
    /\ get_asize(probe.dva) = {22, 32} /\ get_vdev(probe.dva) = {5, 23}

\* C23: whenever a comparison that binary_search performs between the element
\* and an item, the first and the last item included, yields no ordering,
\* binary_search returns None.
C23_IncomparableAborts ==
    probe.called =>
        ((\E i \in compared(probe.items, KeyElem(probe.e), probe.connected) :
            elem_partial_cmp(KeyElem(probe.e), probe.items[i].key) = Incomparable)
         => probe.res = 0)

\* C24: inside the operations of RangeMap the address returned by remove_at is
\* normalized, or replaced by an address the tree returned since, before it
\* is passed to item, item_mut, previous_item_address, next_item_address,
\* insert_at or remove_at: no call of remove takes an address that remove_at
\* returned.
C24_AddressProtocol ==
    Called("remove") =>
        \A i \in 1..Len(remove_uses(last.pre, last.key)) :
            remove_uses(last.pre, last.key)[i].from # "remove_at"

\* The stored ranges of t are non-empty, disjoint, sorted and normalized.
WellFormed(t) ==
    /\ \A i \in 1..ItemCount(t) : ~is_empty(t.items[i].key)
    /\ \A j \in 2..ItemCount(t) : \A i \in 1..(j - 1) :
        ~intersects(t.items[i].key, t.items[j].key)
    /\ \A i \in 1..(ItemCount(t) - 1) :
        /\ Lo(t.items[i].key) < Lo(t.items[i + 1].key)
        /\ ~(connected_to(t.items[i].key, t.items[i + 1].key)
             /\ t.items[i].value = t.items[i + 1].value)
\* Every key outside r is bound in t as it was in pre.
FrameOf(t, pre, r) == \A k \in Keys : ~contains(r, k) => get(t, k) = get(pre, k)
AbortLeaves(trees) ==
    \A i \in 1..Len(trees) : WellFormed(trees[i]) /\ FrameOf(trees[i], last.pre, last.key)
\* C25: if f aborts at any of its invocations inside update(r, f), the tree at
\* that moment has its stored ranges sorted, disjoint, non-empty and
\* normalized, and every key outside r, the parts of a stored range that
\* straddles r included, still has the binding it had before the call.
C25_AbortSafe ==
    Called("update") => AbortLeaves(update_trees(last.pre, last.key, last.f))

\* The walk w goes to a stored item strictly earlier in key order at each
\* iteration, over the items of the tree pre.
Backward(w, pre) ==
    /\ \A i \in 1..(Len(w) - 1) : Lo(w[i + 1]) < Lo(w[i])
    /\ Len(w) <= ItemCount(pre)
\* The walk of the call recorded in last.
WalkOf(op) ==
    IF op = "insert" THEN insert_walk(last.pre, last.key, last.value)
    ELSE IF op = "update" THEN update_walk(last.pre, last.key, last.f)
    ELSE remove_walk(last.pre, last.key)
\* C26: insert, update and remove run to completion: each iteration of their
\* backward walk stops or goes on at a stored item strictly earlier in key
\* order than the one just processed, so that the walk of every call that was
\* made is finite, no longer than the map had items.
C26_Terminates ==
    last.op \in {"insert", "update", "remove"} => Backward(WalkOf(last.op), last.pre)
\* A remove walked back over three stored items or more.
C26_Witness ==
    /\ last.op = "remove"
    /\ Len(remove_walk(last.pre, last.key)) >= 3
    /\ Backward(remove_walk(last.pre, last.key), last.pre)

\* The stored items of t as first key, last key and value.
Denoted(t) ==
    [i \in 1..ItemCount(t) |->
        <<Lo(t.items[i].key), Hi(t.items[i].key), t.items[i].value>>] @@ << >>
\* The bindings of the items d: every key with the value of the item that
\* holds it, NoVal when no item does.
HoldingIn(d, k) == {i \in DOMAIN d : d[i][1] <= k /\ k <= d[i][2]}
BindingsOf(d) ==
    [k \in Domain |->
        IF HoldingIn(d, k) = {} THEN NoVal
        ELSE d[CHOOSE i \in HoldingIn(d, k) : TRUE][3]] @@ << >>
Bindings(t) == BindingsOf(Denoted(t))
\* The maximal runs of keys that b binds to one value, in ascending order.
RunStarts(b) ==
    {k \in Domain : b[k] # NoVal /\ (k = NegInf \/ b[k - 1] # b[k])}
RunEnd(b, k) ==
    CHOOSE h \in k..PosInf :
        /\ \A x \in k..h : b[x] = b[k]
        /\ (h = PosInf \/ b[h + 1] # b[k])
RECURSIVE RunsFrom(_, _)
RunsFrom(b, S) ==
    IF S = {} THEN << >>
    ELSE LET k == CHOOSE x \in S : \A y \in S : x <= y
         IN <<<<k, RunEnd(b, k), b[k]>>>> \o RunsFrom(b, S \ {k})
Runs(b) == RunsFrom(b, RunStarts(b))
\* The stored items are the runs of the bindings b, and the map equals the
\* map o exactly when o has the bindings b.
CanonicalFor(t, b, o) ==
    /\ Denoted(t) = Runs(b)
    /\ map_eq(t, o) <=> (b = Bindings(o))
SameBindings(t, o) == Bindings(t) = Bindings(o)
\* C27: the RangeMap has a canonical representation: the stored items are the
\* maximal runs of equally bound keys, which the bindings determine, so that
\* maps with the same bindings hold the same items however they were
\* reached, and == (here between the map and the map before the last call)
\* holds exactly when the bindings are the same.
C27_Canonical ==
    last.op \in {"insert", "update", "remove"} =>
        CanonicalFor(tree, Bindings(tree), last.pre)
\* An insert into a map of two items or more changed no binding and left the
\* map equal to what it was, though given a range no item was stored with.
C27_Witness ==
    /\ Called("insert") /\ ItemCount(tree) >= 2
    /\ \A i \in 1..ItemCount(last.pre) : ~range_eq(last.pre.items[i].key, last.key)
    /\ SameBindings(tree, last.pre) /\ map_eq(tree, last.pre)

\* C28: gaps() yields only non-empty ranges, in strictly ascending order, no
\* two of them connected to each other, and once next() has returned None
\* every later next() returns None.
C28_GapsSequence ==
    iter.active =>
        /\ \A i \in 1..Len(iter.out) : ~is_empty(iter.out[i])
        /\ \A i \in 1..(Len(iter.out) - 1) :
            /\ Hi(iter.out[i]) < Lo(iter.out[i + 1])
            /\ ~connected_to(iter.out[i], iter.out[i + 1])
        /\ iter.ended => ~gaps_next(tree, iter.g).some

EmptyLeaves(t) == {j \in 1..(Cardinality(t.seps) + 1) : LeafLast(t, j) < LeafFirst(t, j)}
\* C30: after every mutation of the BTreeMap the ids allocated in the slab
\* are the ids of the nodes reachable from the root; a node left with no item
\* is removed from the slab within the operation that emptied it, so no
\* allocated node is empty; and the id of every reachable child is allocated.
C30_NodeLifetime ==
    /\ slab.nodes = reachable(slab)
    /\ slab.root.some = bmap.root
    /\ bmap.root => Len(slab.leaves) = Cardinality(bmap.tree.seps) + 1
    /\ bmap.root => EmptyLeaves(bmap.tree) = {}
    /\ \A j \in 1..Len(slab.leaves) : slab.leaves[j] \in slab.nodes

\* The tree t satisfies the order and the balance invariants.
Balanced(t) ==
    /\ Increasing(t.items)
    /\ t.seps # {} =>
        \A j \in 1..(Cardinality(t.seps) + 1) :
            LeafSize(t, j) >= (M + 1) \div 2 - 1 /\ LeafSize(t, j) <= M - 1
\* The leaves of t hold the least number of items a leaf may hold: a removal
\* leaves an underflow that no sibling has an item to spare for.
NoSpare(t) ==
    /\ t.seps # {}
    /\ \A j \in 1..(Cardinality(t.seps) + 1) : LeafSize(t, j) = (M + 1) \div 2 - 1
C32_DecrSaturates ==
    [][~probe'.called =>
        /\ (Concrete(probe.a) /\ probe.a > 0) => probe'.a = Offset_from(probe.a - 1)
        /\ probe.a = Offset_from(0) => probe'.a = Offset_before
        /\ Offset_is_before(probe.a) =>
            /\ probe'.a = Offset_before
            /\ Offset_is_before(probe'.a)
            /\ ~Offset_value(probe'.a).some]_vars

\* The separators s_0..s_(n-1) and the children c_0..c_n of an internal node.
SeparatorOf(node, i) == node.branches[i + 1].item
ChildOf(node, i) == IF i = 0 THEN node.first_child ELSE node.branches[i].child
\* The i-th triple (from 0) that the claim gives for a node of n separators.
TripleOf(node, i) ==
    Triple(IF i = 0 THEN None ELSE Some(SeparatorOf(node, i - 1)),
           ChildOf(node, i),
           IF i = Len(node.branches) THEN None ELSE Some(SeparatorOf(node, i)))
\* C33: for an internal node of n separators and n + 1 children,
\* ChildrenWithSeparators yields exactly n + 1 triples, the i-th being
\* (s_(i-1), c_i, s_i) with None left of the first child and right of the
\* last; its child ids are those Children yields; both yield nothing for a
\* leaf.
C33_ChildrenWithSeparators ==
    /\ \A i \in 1..Len(probe.triples) :
        i - 1 <= Len(probe.node.branches) /\ probe.triples[i] = TripleOf(probe.node, i - 1)
    /\ \A i \in 1..Len(probe.ids) :
        i - 1 <= Len(probe.node.branches) /\ probe.ids[i] = ChildOf(probe.node, i - 1)
    /\ probe.node.leaf => probe.triples = << >> /\ probe.ids = << >>
    /\ (probe.all /\ ~probe.node.leaf) => Len(probe.triples) = Len(probe.node.branches) + 1
    /\ (probe.all /\ probe.ended) =>
        probe.ids = [i \in 1..Len(probe.triples) |-> probe.triples[i].child]
\* Both iterators of an internal node of two separators or more have ended.
C33_Witness ==
    /\ probe.all /\ probe.ended
    /\ Len(probe.node.branches) >= 2
    /\ Len(probe.triples) = Len(probe.node.branches) + 1
    /\ probe.triples[2].left = Some(SeparatorOf(probe.node, 0))

\* The elements contained in exactly one of the sets.
InExactlyOne(a, b) == {v \in a \cup b : ~(v \in a /\ v \in b)}
\* C34: a.symmetric_difference(&b) yields, in strictly ascending order and
\* without duplicates, exactly the elements contained in exactly one of a and
\* b, and the sequence that b.symmetric_difference(&a) yields.
C34_SymmetricDifference ==
    (rbit.active /\ rbit.it.kind = "symmetric_difference") =>
        /\ Ascending(rbit.out)
        /\ \A i \in 1..Len(rbit.out) : rbit.out[i] \in InExactlyOne(rb.a.root, rb.b.root)
        /\ rbit.ended =>
            /\ rbit.out = ordered(InExactlyOne(rb.a.root, rb.b.root))
            /\ rbit.out = collect(set_iter("symmetric_difference", rb.b, rb.a))
\* t1 = {0,1,2} and t2 = {2,3,4}: t1.symmetric_difference(&t2) has yielded 0,
\* 1, 3 and 4 and then None.
C34_Witness ==
    /\ rbit.active /\ rbit.ended /\ rbit.it.kind = "symmetric_difference"
    /\ rb.a.root = {0, 1, 2} /\ rb.b.root = {2, 3, 4}
    /\ rbit.out = <<0, 1, 3, 4>>

\* C35: a.is_disjoint(&b) is true exactly when a and b share no element,
\* a.is_subset(&b) exactly when every element of a is contained in b, and
\* a.is_superset(&b) exactly when b.is_subset(&a).
C35_SetTests ==
    /\ rbdid.op = "is_disjoint" => (rbdid.ret <=> rb.a.root \cap rb.b.root = {})
    /\ rbdid.op = "is_subset" => (rbdid.ret <=> \A v \in rb.a.root : v \in rb.b.root)
    /\ rbdid.op = "is_superset" =>
        /\ rbdid.ret <=> is_subset(rb.b, rb.a)
        /\ rbdid.ret <=> \A v \in rb.b.root : v \in rb.a.root
\* t1 = {0,1,2} and t2 = {2,3,4} are not disjoint.
C35_Witness ==
    /\ rbdid.op = "is_disjoint" /\ ~rbdid.ret
    /\ rb.a.root = {0, 1, 2} /\ rb.b.root = {2, 3, 4}
\* A proper subset is reported: t1 = {1,2} within t2 = {0,1,2,3}.
C35_WitnessSubset ==
    /\ rbdid.op = "is_subset" /\ rbdid.ret
    /\ rb.a.root = {1, 2} /\ rb.b.root = {0, 1, 2, 3}

\* An Iter that reports as len() the number of elements it still yields, never
\* below zero, and that gives None again once it has given None.
IterSound(it) ==
    /\ iter_len(it) = Len(iter_collect(it))
    /\ iter_len(it) >= 0
    /\ iter_len(iter_drained(it)) = 0
    /\ ~iter_next(iter_drained(it)).res.some
\* C36: Iter and the Difference, SymmetricDifference, Intersection and Union
\* iterators are fused: once next() has returned None, every later next()
\* returns None.  Iter::len() always equals the number of elements still to
\* be yielded and never goes below zero.
C36_Fused ==
    rbit.active =>
        /\ rbit.after => rbit.ended
        /\ rbit.ended => ~set_next(rbit.it).res.some
        /\ IterSound(rbit.it.left) /\ IterSound(rbit.it.right)
        /\ IterSound(rb_iter(rb.a))
\* The union of {0,1,2} and {2,3,4} has given all five elements, then None,
\* and next() was called again; both Iter report no element left.
C36_Witness ==
    /\ rbit.active /\ rbit.after /\ rbit.it.kind = "union"
    /\ rb.a.root = {0, 1, 2} /\ rb.b.root = {2, 3, 4}
    /\ rbit.out = <<0, 1, 2, 3, 4>>
    /\ iter_len(rbit.it.left) = 0 /\ iter_len(rbit.it.right) = 0

\* What the getter of field gives for d.
DvaGet(field, d) ==
    IF field = "asize" THEN get_asize(d)
    ELSE IF field = "grid" THEN get_grid(d)
    ELSE IF field = "vdev" THEN get_vdev(d)
    ELSE IF field = "offset" THEN get_offset(d)
    ELSE get_gang(d)
\* The last call was a setter among setters and left every other field among
\* fields as it was.
SetterFrame(setters, fields) ==
    probe.did \in setters =>
        \A f \in fields \ {probe.did} : DvaGet(f, probe.dva) = DvaGet(f, probe.pre)
\* C37: each Dva setter changes only its own field: after set_asize,
\* set_grid, set_vdev, set_offset or set_gang with a value in range, the
\* getters of all the other fields (asize, grid, vdev, offset, gang) give what
\* they gave before the call.
C37_SetterFrame ==
    SetterFrame({"asize", "grid", "vdev", "offset", "gang"},
            {"asize", "grid", "vdev", "offset", "gang"})
\* The setters of dva_word[0] leave every other field alone, and those of
\* dva_word[1] leave the fields of dva_word[0] alone.
C37_FrameOfWords ==
    /\ SetterFrame({"asize", "grid", "vdev"}, {"asize", "grid", "vdev", "offset", "gang"})
    /\ SetterFrame({"offset", "gang"}, {"asize", "grid", "vdev"})

\* C38: two SIOChksum compare equal (==) exactly when all four 64-bit words
\* are pairwise equal, and the comparison completes without arithmetic
\* overflow for every pair of word values.
C38_ChksumEq ==
    probe.did.op = "eq" =>
        /\ ~probe.did.panicked
        /\ probe.did.ret <=> \A i \in 1..4 : probe.a[i] = probe.b[i]
\* When == completes, equal checksums compare equal.
C38_EqualCompareEqual ==
    (probe.did.op = "eq" /\ ~probe.did.panicked /\ probe.a = probe.b) => probe.did.ret

\* C39: SIOChksum::is_zero() returns true exactly when all four checksum words
\* are zero; in particular it is true after set_checksum(0, 0, 0, 0) and false
\* whenever any single word is non-zero.
C39_IsZero ==
    probe.did.op = "is_zero" => (probe.did.ret <=> \A i \in 1..4 : probe.a[i] = {})
\* is_zero() is true of the checksum of four zero words and false of one with
\* exactly one word that is not zero.
C39_ZeroAndSingleWord ==
    probe.did.op = "is_zero" =>
        /\ probe.a = SIOChksum_new => probe.did.ret
        /\ Cardinality({i \in 1..4 : probe.a[i] # {}}) = 1 => ~probe.did.ret
====
